---------------------------- MODULE Spec2Model ----------------------------
(***************************************************************************)
(* A model of the simulation core of deltaworld (src/deltaworld/model.py   *)
(* and src/deltaworld/views.py): the Level wave cursor, the GameView tick  *)
(* (wave timer, combat resolution, player death) and the Hostile path      *)
(* requests served by the pathfinding worker pool.                         *)
(*                                                                         *)
(* Python exceptions are modelled as values: an operator that models a     *)
(* method returns a record whose field exc is "none" when the method       *)
(* returns and the exception's class name when it raises; the fields hold  *)
(* the state left behind at that point.                                    *)
(*                                                                         *)
(* The code compares time.time() with time stamps it stored earlier.  The  *)
(* model holds each stamp as its age, time.time() - stamp, cut off at the  *)
(* largest value the code compares it with: storing time.time() sets the   *)
(* age to 0 and the passing of dt adds dt to every age.  Times are whole   *)
(* seconds for the GameView and tenths of a second for the Hostile.        *)
(***************************************************************************)
EXTENDS Integers, Sequences, FiniteSets, TLC

VARIABLES
    level,        \* Level: waves, special_waves, mobs_probabilities, current_wave, last_wave
    ret,          \* the list returned by the last Level.next_wave call of the driver
    exc,          \* the exception that escaped the last call / tick ("none" when it returned)
    calls,        \* number of Level.next_wave calls made by the driver
    successes,    \* number of those calls that returned
    game,         \* GameView: its fields, its scene and its player
    obs,          \* what the last GameView.on_update did (history, not program state)
    hostiles,     \* the Hostile objects of a room, by identity
    tasks,        \* the requests handed to the pathfinding pool, in submission order
    player        \* the player sprite the hostiles chase: its tile and whether it moves

levelVars == <<level, ret, exc, calls, successes>>
gameVars == <<game, obs>>
pathVars == <<hostiles, tasks, player>>

vars == <<level, ret, exc, calls, successes, game, obs,
          hostiles, tasks, player>>

(***************************************************************************)
(* Bounds of the model.                                                    *)
(***************************************************************************)
MaxWaves == 2
MaxMobs == 2
MaxCalls == 4
MaxHostiles == 3
MaxBullets == 2
MaxItems == 1
MaxItemTypes == 2
MaxCoins == 4
MaxPenetration == 2
MaxDamage == 1
MaxWaveDuration == 3

Max(a, b) == IF a >= b THEN a ELSE b
Min(a, b) == IF a <= b THEN a ELSE b

(***************************************************************************)
(* Level (model.py 171-247).  A wave is <<selector, duration>>; the        *)
(* selector is an int (a probabilistic wave of that many mobs) or a str    *)
(* (the name of a special wave): isinstance(sel, str) is sel.kind = "str". *)
(***************************************************************************)
IntSel(n) == [kind |-> "int", n |-> n, name |-> ""]
StrSel(s) == [kind |-> "str", n |-> 0, name |-> s]

\* The mob names a level file may use; MOB_NAME_TO_MOB (model.py 838-863)
\* maps only "zombie" to a class.
MOB_NAME_TO_MOB == {"zombie"}

\* All sequences over S of length n.
RECURSIVE SeqsOfLen(_, _)
SeqsOfLen(S, n) ==
    IF n = 0 THEN {<<>>}
    ELSE {Append(s, x) : s \in SeqsOfLen(S, n - 1), x \in S}

SeqsUpTo(S, n) == UNION {SeqsOfLen(S, k) : k \in 0..n}

\* Level.__init__: the four tables of the toml file, the cursor at 0.
Level_init(specs) ==
    [mobs_probabilities |-> specs.mobs_probabilities,
     waves |-> specs.waves,
     special_waves |-> specs.special_waves,
     current_wave |-> 0,
     last_wave |-> Len(specs.waves) - 1]

\* The possible results of random.choices(population, weights, k): every
\* list of k names of the population (k <= 0 gives the empty list).
\* An empty population with k > 0 raises IndexError.
\* calculate_wave_distribution_short is a faulty variant, one mob short.
calculate_wave_distribution_short(lv, wave) ==
    LET mobs == lv.waves[wave + 1][1] IN
    IF mobs.kind = "str" THEN [exc |-> "RuntimeError", dists |-> {<<>>}]
    ELSE [exc |-> "none", dists |-> SeqsOfLen(lv.mobs_probabilities, Max(mobs.n - 1, 0))]

calculate_wave_distribution(lv, wave) ==
    LET mobs == lv.waves[wave + 1][1] IN
    IF mobs.kind = "str" THEN [exc |-> "RuntimeError", dists |-> {<<>>}]
    ELSE IF mobs.n > 0 /\ lv.mobs_probabilities = {}
         THEN [exc |-> "IndexError", dists |-> {<<>>}]
    ELSE [exc |-> "none", dists |-> SeqsOfLen(lv.mobs_probabilities, mobs.n)]

\* A bag of mob names (mob -> count) flattened to the set of its
\* orderings: what random.shuffle can leave in the list.  FlattenOnce is a
\* faulty variant that lists each mob once, whatever its count.
RECURSIVE FlattenOnce(_, _)
FlattenOnce(counts, names) ==
    IF names = {} THEN {<<>>}
    ELSE UNION {{<<m>> \o rest : rest \in FlattenOnce(counts, names \ {m})}
                : m \in names}

RECURSIVE Flatten(_, _)
Flatten(counts, names) ==
    IF names = {} THEN {<<>>}
    ELSE UNION {
        IF counts[m] <= 0 THEN Flatten(counts, names \ {m})
        ELSE {<<m>> \o rest :
                rest \in Flatten([counts EXCEPT ![m] = counts[m] - 1], names)}
        : m \in names}

get_special_wave_distribution(lv, wave) ==
    LET name == lv.waves[wave + 1][1] IN
    IF name.kind # "str" THEN [exc |-> "RuntimeError", dists |-> {<<>>}]
    ELSE IF name.name \notin DOMAIN lv.special_waves
         THEN [exc |-> "KeyError", dists |-> {<<>>}]
    ELSE [exc |-> "none",
          dists |-> Flatten(lv.special_waves[name.name],
                            DOMAIN lv.special_waves[name.name])]

\* The cursor after a served wave (model.py 246); AdvanceCursorSkipping is
\* a faulty variant, an advance by two.
AdvanceCursorSkipping(cw) == cw + 2
AdvanceCursor(cw) == cw + 1

\* The exhaustion test of Level.next_wave (model.py 237).
Exhausted(lv) == lv.current_wave > lv.last_wave

\* Level.next_wave: the set of outcomes [exc, level, dist] of one call.
next_wave(lv) ==
    IF Exhausted(lv)
    THEN {[exc |-> "RuntimeError", level |-> lv, dist |-> <<>>]}
    ELSE LET wave == lv.waves[lv.current_wave + 1]
             d == IF wave[1].kind = "str"
                  THEN get_special_wave_distribution(lv, lv.current_wave)
                  ELSE calculate_wave_distribution(lv, lv.current_wave)
         IN IF d.exc # "none"
            THEN {[exc |-> d.exc, level |-> lv, dist |-> <<>>]}
            ELSE {[exc |-> "none",
                   level |-> [lv EXCEPT !.current_wave = AdvanceCursor(@)],
                   dist |-> x] : x \in d.dists}

(***************************************************************************)
(* Level files.  WaveEntries are the waves a file of the model may list;   *)
(* SpecialWaves is its special_waves table.                                *)
(***************************************************************************)
WaveDurations == {1, MaxWaveDuration}

SpecialWaves == [boss_intro |-> [zombie |-> 2]]

WaveEntries ==
    {<<IntSel(n), d>> : n \in 0..MaxMobs, d \in WaveDurations}
    \cup {<<StrSel("boss_intro"), d>> : d \in WaveDurations}

LevelFiles ==
    {[mobs_probabilities |-> {"zombie"},
      waves |-> w,
      special_waves |-> SpecialWaves] : w \in SeqsUpTo(WaveEntries, MaxWaves)}

(***************************************************************************)
(* SpecLevel: a driver that loads a level file and calls next_wave again   *)
(* and again, catching what it raises.                                     *)
(***************************************************************************)
NoGame == [view |-> "none"]
NoObs == [tick |-> "none"]
NoPlayer == [center |-> 0, moving |-> FALSE]

\* The variables of the pathfinding model, in a specification that has no
\* hostile.
NoPath ==
    /\ hostiles = <<>>
    /\ tasks = [reqs |-> <<>>, queue |-> <<>>]
    /\ player = NoPlayer

InitLevel ==
    /\ level \in {Level_init(f) : f \in LevelFiles}
    /\ ret = <<>>
    /\ exc = "none"
    /\ calls = 0
    /\ successes = 0
    /\ game = NoGame
    /\ obs = NoObs
    /\ NoPath

CallNextWave ==
    /\ calls < MaxCalls
    /\ \E r \in next_wave(level) :
         /\ level' = r.level
         /\ ret' = r.dist
         /\ exc' = r.exc
         /\ successes' = IF r.exc = "none" THEN successes + 1 ELSE successes
    /\ calls' = calls + 1
    /\ UNCHANGED gameVars
    /\ UNCHANGED pathVars

NextLevel == CallNextWave

SpecLevel == InitLevel /\ [][NextLevel]_vars

(***************************************************************************)
(* GameView (views.py 735-1212).  scene["hostiles"] is a function from the *)
(* identities of the hostiles in the scene; the projectile and item lists  *)
(* are sequences in list order.  Positions are not part of this model:     *)
(* which sprites overlap in a tick is an input of the tick.                *)
(***************************************************************************)
ZombieHP == 1
EXPIRY_TIME == 16
StartDelay == 2
ResurrectionDelay == 4
StartCoins == 3

ITEMS == <<"SemiAutomatic", "Pressurer", "Scope", "BlueCow", "Spray",
           "ThreeSixty", "HolyGuard", "SmokeBomb", "LaserBeam">>
RARE(item) == item \in {"Pressurer", "HolyGuard", "SmokeBomb", "LaserBeam"}

\* The item types the drops of the model are drawn from: the first
\* MaxItemTypes entries of ITEMS.
ItemPool == {ITEMS[i] : i \in 1..Min(MaxItemTypes, Len(ITEMS))}

\* The age of a time stamp after dt more seconds, cut off at cap.
Older(age, dt, cap) == Min(age + dt, cap)

\* The sprites of a list that are still in the scene after a loop that
\* removed some (remove_from_sprite_lists).
Compact(sprites) == SelectSeq(sprites, LAMBDA s : s.in_scene)

Restrict(f, S) == [x \in S |-> f[x]]

\* A removed hostile leaves every SpriteList, the bullets' hostiles_hit too.
ForgetHostiles(bullets, ids) ==
    [i \in 1..Len(bullets) |->
        [bullets[i] EXCEPT !.hostiles_hit = SelectSeq(@, LAMBDA h : h \notin ids)]]

\* GameView.setup with setup_player and setup_map, for a run in hard mode
\* or not.
GameView_setup(hard) ==
    [view |-> "game",
     paused |-> FALSE,
     hard |-> hard,
     res_coins |-> IF ~hard THEN StartCoins ELSE 0,
     visible |-> TRUE,
     can_move |-> TRUE,
     started |-> FALSE,
     delay_before_start |-> StartDelay,
     delay_age |-> 0,             \* time.time() - delay_start_time
     wave_age |-> 0,              \* time.time() - last_wave_start (unset before the first wave)
     last_wave_duration |-> 0,    \* unset before the first wave
     hostiles |-> <<>>,
     friendly_projectiles |-> <<>>,
     hostile_projectiles |-> <<>>,
     items |-> <<>>,
     scheduled |-> {}]

\* The identity of the next hostile: the least one no hostile in the scene has.
FreshHostile(hs) == CHOOSE i \in 1..(Cardinality(DOMAIN hs) + 1) :
                        /\ i \notin DOMAIN hs
                        /\ \A j \in 1..(i - 1) : j \in DOMAIN hs

\* GameView.spawn_mob for the mobs of a wave, in order; MOB_NAME_TO_MOB[mob]
\* raises KeyError at the first name it does not hold.
RECURSIVE spawn_mobs(_, _)
spawn_mobs(g, mobs) ==
    IF mobs = <<>> THEN [exc |-> "none", game |-> g]
    ELSE IF Head(mobs) \notin MOB_NAME_TO_MOB THEN [exc |-> "KeyError", game |-> g]
    ELSE spawn_mobs(
            [g EXCEPT !.hostiles =
                (FreshHostile(@) :> [hp |-> ZombieHP, fresh |-> TRUE]) @@ @],
            Tail(mobs))

\* GameView.new_wave: the set of its outcomes [exc, game, level].
new_wave(g, lv) ==
    IF lv.current_wave >= Len(lv.waves)
    THEN {[exc |-> "RuntimeError", game |-> g, level |-> lv]}
    ELSE LET g1 == [g EXCEPT !.last_wave_duration = lv.waves[lv.current_wave + 1][2]]
         IN {IF r.exc # "none"
             THEN [exc |-> r.exc, game |-> g1, level |-> r.level]
             ELSE LET sp == spawn_mobs(g1, r.dist) IN
                  IF sp.exc # "none"
                  THEN [exc |-> sp.exc, game |-> sp.game, level |-> r.level]
                  ELSE [exc |-> "none",
                        game |-> [sp.game EXCEPT !.wave_age = 0],
                        level |-> r.level]
             : r \in next_wave(lv)}

\* GameView.back_to_main_menu.
back_to_main_menu(g) == [g EXCEPT !.paused = FALSE, !.view = "menu"]

\* The wave cursor after a resurrection (views.py 890-892);
\* RollbackNoClamp is a faulty variant, without the clamp at 0.
RollbackNoClamp(cw) == cw - 2
Rollback(cw) == IF cw - 2 < 0 THEN 0 ELSE cw - 2

\* The coins left after a resurrection (views.py 888); ConsumeCoinTwice is
\* a faulty variant, a death that costs two coins.
ConsumeCoinTwice(c) == c - 2
ConsumeCoin(c) == c - 1

\* The scene after the removal loop of kill_player (views.py 880-885).
ClearScene(g) ==
    [g EXCEPT !.hostiles = <<>>,
              !.friendly_projectiles = <<>>,
              !.hostile_projectiles = <<>>]

\* `if self.player.res_coins:` (views.py 887); HasCoinAlways is a faulty
\* variant that takes a coin the player does not have.
HasCoinAlways(c) == TRUE
HasCoin(c) == c # 0

\* GameView.kill_player: [game, level].  kill_player_keep_started is a
\* faulty variant that leaves started set.
kill_player_keep_started(g, lv) ==
    LET g1 == ClearScene(g) IN
    IF g1.res_coins # 0
    THEN [game |-> [g1 EXCEPT !.res_coins = ConsumeCoin(@),
                              !.visible = FALSE,
                              !.can_move = FALSE,
                              !.delay_before_start = ResurrectionDelay,
                              !.delay_age = 0,
                              !.scheduled = @ \cup {<<"_show_player", 1>>}],
          level |-> [lv EXCEPT !.current_wave = Rollback(@)]]
    ELSE [game |-> back_to_main_menu(g1), level |-> lv]
kill_player(g, lv) ==
    LET g1 == ClearScene(g) IN
    IF HasCoin(g1.res_coins)
    THEN [game |-> [g1 EXCEPT !.res_coins = ConsumeCoin(@),
                              !.visible = FALSE,
                              !.can_move = FALSE,
                              !.started = FALSE,
                              !.delay_before_start = ResurrectionDelay,
                              !.delay_age = 0,
                              !.scheduled = @ \cup {<<"_show_player", 1>>}],
          level |-> [lv EXCEPT !.current_wave = Rollback(@)]]
    ELSE [game |-> back_to_main_menu(g1), level |-> lv]

\* The outcome of the loot code of views.py 835-844 for its five random
\* draws: whether anything drops, the item picked, whether a rare item is
\* re-rolled, the common item it is re-rolled to, whether it becomes a coin.
\* LootCoinInHardMode is a faulty variant without the test of the mode.
LootCoinInHardMode(hard, drop, item, reroll, common, coin) ==
    IF ~drop THEN "none"
    ELSE IF coin THEN "ResurrectionCoin"
    ELSE IF RARE(item) /\ reroll THEN common ELSE item
Loot(hard, drop, item, reroll, common, coin) ==
    IF ~drop THEN "none"
    ELSE IF ~hard /\ coin THEN "ResurrectionCoin"
    ELSE IF RARE(item) /\ reroll THEN common ELSE item

LootOutcomes(hard) ==
    {Loot(hard, d, i, r, c, k) :
        d \in BOOLEAN, i \in ItemPool, r \in BOOLEAN,
        c \in {x \in ItemPool : ~RARE(x)}, k \in BOOLEAN}

\* GameView.place_item.
place_item(g, item) ==
    [g EXCEPT !.items = Append(@, [type |-> item, age |-> 0, in_scene |-> TRUE])]

\* Whether a hit destroys the projectile (views.py 831); SpentAfterZero is
\* a faulty variant that lets it live one hit longer.
SpentAfterZero(rp) == rp < 0
Spent(rp) == rp < 1

\* Whether a hit kills the hostile (views.py 833); DiedBelowZero is a
\* faulty variant that lets a hostile of hp 0 live.
DiedBelowZero(hp) == hp < 0
Died(hp) == hp < 1

\* The hit branch of the projectile loop (views.py 825-844): projectile b
\* overlaps hostile h first; loot is the outcome of the loot code should
\* the hostile die.  st is [game, hits]; hits lists the hits of this tick.
hit_hostile(st, b, h, loot) ==
    LET g == st.game
        p == g.friendly_projectiles[b]
        rp == p.remaining_penetration - 1
        hp == g.hostiles[h].hp - p.damage
        g1 == [g EXCEPT
                 !.friendly_projectiles[b].remaining_penetration = rp,
                 !.friendly_projectiles[b].hostiles_hit = Append(@, h),
                 !.friendly_projectiles[b].nhits = @ + 1,
                 !.friendly_projectiles[b].in_scene = ~Spent(rp),
                 !.hostiles[h].hp = hp]
        g2 == IF Died(hp)
              THEN [g1 EXCEPT !.hostiles = Restrict(@, DOMAIN @ \ {h}),
                              !.friendly_projectiles = ForgetHostiles(@, {h})]
              ELSE g1
    IN [game |-> IF Died(hp) /\ loot # "none" THEN place_item(g2, loot) ELSE g2,
        hits |-> Append(st.hits,
                    [bullet |-> b, hostile |-> h,
                     penetration |-> p.penetration, damage |-> p.damage,
                     nhits |-> p.nhits + 1, bullet_removed |-> Spent(rp),
                     hp_before |-> g.hostiles[h].hp, hp_after |-> hp,
                     hostile_removed |-> Died(hp),
                     loot |-> IF Died(hp) THEN loot ELSE "none"])]

\* What a projectile overlaps in a tick: nothing; "oob", it is out of the
\* map; "wall_remove", a wall whose lower edge it is not below;
\* "wall_keep", walls, and it is below the lower edge of each; "hostile",
\* no wall, and h is the first hostile of the collision list.
Ev(kind, h) == [kind |-> kind, h |-> h]
Events(hs, walls) ==
    {Ev(k, 0) : k \in {"none", "oob"}}
    \cup (IF walls THEN {Ev(k, 0) : k \in {"wall_remove", "wall_keep"}} ELSE {})
    \cup {Ev("hostile", h) : h \in hs}

\* One pass of the loop of views.py 801-844, over projectile b.
projectile_step(st, b, ev, loot) ==
    IF ev.kind \in {"oob", "wall_remove"}
    THEN [st EXCEPT !.game.friendly_projectiles[b].in_scene = FALSE]
    ELSE IF ev.kind = "hostile" /\ ev.h \in DOMAIN st.game.hostiles
    THEN hit_hostile(st, b, ev.h, loot)
    ELSE st

\* The whole loop, over the projectiles in the scene when it starts, in
\* list order, from projectile b on.
RECURSIVE projectile_loop(_, _, _, _)
projectile_loop(st, b, ev, loot) ==
    IF b > Len(ev) THEN st
    ELSE projectile_loop(projectile_step(st, b, ev[b], loot[b]), b + 1, ev, loot)

\* ItemSprite.on_update (views.py 61-66): a pickup leaves the scene once
\* more than EXPIRY_TIME has passed since it was placed.
expire_items(g) ==
    [g EXCEPT !.items = SelectSeq(@, LAMBDA i : ~(i.age > EXPIRY_TIME))]

\* A new Bullet (model.py 340-362); nhits counts its hits (history).
Bullet(damage, penetration) ==
    [damage |-> damage,
     penetration |-> penetration,
     remaining_penetration |-> penetration,
     hostiles_hit |-> <<>>,
     nhits |-> 0,
     in_scene |-> TRUE]

\* The bullets Player.shoot hands to the scene in a tick (views.py
\* 796-798): none while the player cannot move, else none or one.
\* ShootOutcomesHeld is a faulty variant without the test of model.py
\* 633-634.
ShootOutcomesHeld(g) ==
    {<<>>} \cup {<<Bullet(d, p)>> : d \in 1..MaxDamage, p \in 1..MaxPenetration}
ShootOutcomes(g) ==
    {<<>>} \cup
    (IF g.can_move
     THEN {<<Bullet(d, p)>> : d \in 1..MaxDamage, p \in 1..MaxPenetration}
     ELSE {})

\* The pickup loop of views.py 856-866 over the items `pick` (places in
\* the list) the player overlaps.  What Player.pickup_item does with an
\* item that is no coin is the player's own state, which this record does
\* not hold.
pickup(g, pick) ==
    [g EXCEPT !.items = Compact([i \in 1..Len(@) |->
                            [@[i] EXCEPT !.in_scene = i \notin pick]]),
              !.res_coins = @ + Cardinality(
                  {i \in pick \cap (1..Len(g.items)) :
                      g.items[i].type = "ResurrectionCoin"})]

\* The test of views.py 787 on the time since the last wave started;
\* WaveDueLate is a faulty variant with > for >=.
WaveDueLate(wave_age, last_wave_duration) == wave_age > last_wave_duration
WaveDue(wave_age, last_wave_duration) == wave_age >= last_wave_duration

\* The first part of GameView.on_update (views.py 779-792): the set of
\* outcomes [exc, game, level, branch, raised]: exc is what escapes the
\* tick, raised what new_wave raised, caught or not.
wave_stage(g, lv) ==
    IF ~g.started /\ g.delay_age >= g.delay_before_start
    THEN {[exc |-> r.exc, game |-> r.game, level |-> r.level,
           branch |-> "start", raised |-> r.exc]
          : r \in new_wave([g EXCEPT !.started = TRUE], lv)}
    ELSE IF g.started /\ WaveDue(g.wave_age, g.last_wave_duration)
    THEN {[exc |-> IF r.exc = "RuntimeError" THEN "none" ELSE r.exc,
           game |-> r.game, level |-> r.level,
           branch |-> "timer", raised |-> r.exc]
          : r \in new_wave(g, lv)}
    ELSE {[exc |-> "none", game |-> g, level |-> lv,
           branch |-> "none", raised |-> "none"]}

(***************************************************************************)
(* The Player's items (model.py 264-337, 491-498, 592-619).  An Item is    *)
(* [type, id, used, age]: its class, its identity, whether use() has set   *)
(* time_used, and time.time() - time_used.  stored_item = NoItem is None.  *)
(* log is history: the last call and the identities it took out of         *)
(* active_items.                                                           *)
(***************************************************************************)
NoItem == [type |-> "none", id |-> 0, used |-> FALSE, age |-> 0]

DURATION(type) ==
    CASE type = "SemiAutomatic" -> 12
      [] type = "Pressurer" -> 12
      [] type = "Scope" -> 18
      [] type = "BlueCow" -> 15
      [] type = "Spray" -> 13
      [] type = "ThreeSixty" -> 12
      [] type = "HolyGuard" -> 8
      [] type = "SmokeBomb" -> 7
      [] type = "LaserBeam" -> 15

\* Item.__init__: time_used is None.
Item_init(type, id) == [type |-> type, id |-> id, used |-> FALSE, age |-> 0]

\* Item.use: time_used = time.time().
Item_use(item) == [item EXCEPT !.used = TRUE, !.age = 0]

Player_init ==
    [center |-> 0, moving |-> FALSE,
     stored_item |-> NoItem,
     active_items |-> <<>>,
     log |-> [op |-> "init", removed |-> {}]]

\* isinstance(active_item, item.__class__) (model.py 615): no item class
\* derives from another.  SameInstance is a faulty variant, a test of
\* identity.
SameInstance(active_item, item) == active_item.id = item.id
SameClass(active_item, item) == active_item.type = item.type

\* Player._use_item.
use_item_(pl, item) ==
    LET kept == SelectSeq(pl.active_items, LAMBDA x : ~SameClass(x, item))
    IN [pl EXCEPT !.active_items = Append(kept, Item_use(item)),
                  !.log.removed =
                      {pl.active_items[i].id : i \in 1..Len(pl.active_items)}
                      \ {kept[i].id : i \in 1..Len(kept)}]

\* Player.use_item.
use_item(pl) ==
    IF pl.stored_item = NoItem
    THEN [pl EXCEPT !.log = [op |-> "use_item", removed |-> {}]]
    ELSE [use_item_([pl EXCEPT !.log.op = "use_item"], pl.stored_item)
             EXCEPT !.stored_item = NoItem]

\* Player.pickup_item.
pickup_item(pl, item) ==
    IF pl.stored_item = NoItem
    THEN [pl EXCEPT !.stored_item = item,
                    !.log = [op |-> "pickup_item", removed |-> {}]]
    ELSE use_item_([pl EXCEPT !.log.op = "pickup_item"], item)

\* The end of Player.on_update (model.py 592-596), dt seconds later.
expire_active_items(pl, dt) ==
    LET aged == [i \in 1..Len(pl.active_items) |->
                    [pl.active_items[i] EXCEPT
                        !.age = Older(@, dt, DURATION(pl.active_items[i].type) + 1)]]
        kept == SelectSeq(aged, LAMBDA x : ~(x.age > DURATION(x.type)))
    IN [pl EXCEPT !.active_items = kept,
                  !.log = [op |-> "on_update",
                           removed |-> {aged[i].id : i \in 1..Len(aged)}
                                       \ {kept[i].id : i \in 1..Len(kept)}]]

\* The identities of the Item objects the player holds.
HeldIds(pl) ==
    {pl.active_items[i].id : i \in 1..Len(pl.active_items)}
        \cup (IF pl.stored_item = NoItem THEN {} ELSE {pl.stored_item.id})

\* item.type() (views.py 866): a new object.
NewItem(pl, type) ==
    Item_init(type, CHOOSE i \in 1..(Cardinality(HeldIds(pl)) + 1) :
                        /\ i \notin HeldIds(pl)
                        /\ \A j \in 1..(i - 1) : j \in HeldIds(pl))

\* Whether the record of the player holds its items.
HoldsItems(pl) == "active_items" \in DOMAIN pl

\* The player's items dt seconds later: time.time() - time_used has grown.
age_items(pl, dt) ==
    IF ~HoldsItems(pl) THEN pl
    ELSE [pl EXCEPT !.active_items =
             [i \in 1..Len(@) |->
                 [@[i] EXCEPT !.age = Older(@, dt, DURATION(pl.active_items[i].type) + 1)]]]

\* self.player.pickup_item(item.type()) for the picked pickups that are no
\* coins, in list order (views.py 861-866).
RECURSIVE pickup_items(_, _)
pickup_items(pl, types) ==
    IF types = <<>> THEN pl
    ELSE pickup_items(IF Head(types) = "ResurrectionCoin" THEN pl
                      ELSE pickup_item(pl, NewItem(pl, Head(types))),
                      Tail(types))

\* What a tick that runs does to the player's items: Player.on_update
\* through scene.on_update (views.py 794), then the pickups.
items_of_tick(pl, picked) ==
    IF ~HoldsItems(pl) THEN pl
    ELSE pickup_items(expire_active_items(pl, 0), picked)

\* check_for_collision_with_list(self.player, self.scene["hostiles"])
\* (views.py 848): of the hostiles the player's sprite overlaps, those in
\* the scene.  OverlappedRemoved is a faulty variant that finds removed
\* hostiles too.
OverlappedRemoved(touch, g) == touch
Overlapped(touch, g) == touch \cap DOMAIN g.hostiles

\* The rest of GameView.on_update (views.py 794-870), for its inputs: the
\* bullets shot, what each projectile overlaps, the loot drawn for each,
\* the hostiles the player overlaps, whether the player overlaps the
\* pickups on the ground.
\* Gives [game, level, hits, kill, pre, post]: the hits of the loop,
\* whether kill_player ran, and the state before and after it.
rest_of_tick(g, lv, shot, ev, loot, touch, pickall) ==
    LET g1 == expire_items(g)
        g2 == [g1 EXCEPT !.friendly_projectiles = @ \o shot]
        st == projectile_loop([game |-> g2, hits |-> <<>>], 1, ev, loot)
        g3 == [st.game EXCEPT !.friendly_projectiles = Compact(@)]
        dead == \/ Overlapped(touch, g3) # {}
                \/ g3.hostile_projectiles # <<>>
        k == IF dead THEN kill_player(g3, lv) ELSE [game |-> g3, level |-> lv]
        g5 == pickup(k.game, IF pickall THEN 1..Len(k.game.items) ELSE {})
    IN [game |-> expire_items(g5),
        level |-> k.level,
        hits |-> st.hits,
        picked |-> IF pickall
                   THEN [i \in 1..Len(k.game.items) |-> k.game.items[i].type]
                   ELSE <<>>,
        kill |-> IF ~dead THEN "none"
                 ELSE IF k.game.view = "menu" THEN "menu" ELSE "resurrected",
        pre |-> [res_coins |-> g3.res_coins,
                 current_wave |-> lv.current_wave,
                 hostiles |-> DOMAIN g3.hostiles,
                 friendly_projectiles |-> Len(g3.friendly_projectiles)],
        post |-> [res_coins |-> k.game.res_coins,
                  current_wave |-> k.level.current_wave,
                  hostiles |-> DOMAIN k.game.hostiles,
                  friendly_projectiles |-> Len(k.game.friendly_projectiles),
                  hostile_projectiles |-> Len(k.game.hostile_projectiles)]]

\* The passing of dt seconds: every age grows, every scheduled callback
\* comes nearer; a hostile spawned in an earlier tick has walked on.
pass(g, dt) ==
    [g EXCEPT !.delay_age = Older(@, dt, ResurrectionDelay),
              !.wave_age = Older(@, dt, MaxWaveDuration),
              !.items = [i \in 1..Len(@) |->
                            [@[i] EXCEPT !.age = Older(@, dt, EXPIRY_TIME + 1)]],
              !.hostiles = [h \in DOMAIN @ |-> [@[h] EXCEPT !.fresh = FALSE]],
              !.scheduled = {<<c[1], Max(c[2] - dt, 0)>> : c \in @}]

LootChoices(n, ev, outcomes) ==
    {f \in [1..n -> outcomes] :
        \A b \in 1..n : ev[b].kind # "hostile" => f[b] = "none"}

DeltaTimes == {1, 2}

NoKill == [res_coins |-> 0, current_wave |-> 0, hostiles |-> {},
           friendly_projectiles |-> 0]
NoPost == [res_coins |-> 0, current_wave |-> 0, hostiles |-> {},
           friendly_projectiles |-> 0, hostile_projectiles |-> 0]

\* Whether a new_wave call of an earlier tick has raised RuntimeError, as
\* the ticks have recorded it.
Found(o) == "found" \in DOMAIN o /\ o.found

\* What each projectile of a tick overlapped, as the tick records it where
\* several projectiles share the scene.
Overlaps(E, ev) == IF E.bullets > 1 THEN ev ELSE <<>>

\* The test of views.py 774-775; PausedNever is a faulty variant that
\* lets a paused game run.
PausedNever(g) == FALSE
Paused(g) == g.paused

\* The tick lengths a specification explores: E.ticks if it names them.
TickLengths(E) == IF "ticks" \in DOMAIN E THEN E.ticks ELSE DeltaTimes

\* The tick length a tick records, if the specification observes the timing.
Timed(E, dt) == IF E.timing THEN dt ELSE 0

\* GameView.on_update(dt), called by the window.  E bounds the inputs the
\* specification explores: E.drops, whether the loot code may drop
\* anything; E.walls, whether projectiles meet walls; E.bullets and
\* E.hostiles, how many of each the scene holds; E.timing, whether the
\* ticks record their length and the exhaustion of the waves; E.touch,
\* whether they record the hostiles the player overlapped.
GameView_on_update(E) ==
    /\ game.view = "game"
    /\ exc = "none"
    /\ \E dt \in TickLengths(E) :
        LET g0 == pass(game, dt)
            p0 == age_items(player, dt)
        IN
        IF Paused(game)
        THEN /\ game' = g0
             /\ player' = p0
             /\ obs' = [tick |-> "paused", dt |-> Timed(E, dt),
                        found |-> E.timing /\ Found(obs)]
             /\ UNCHANGED <<level, exc>>
        ELSE \E w \in wave_stage(g0, level) :
             IF w.exc # "none"
             THEN /\ game' = w.game
                  /\ player' = p0
                  /\ level' = w.level
                  /\ exc' = w.exc
                  /\ obs' = [tick |-> "raised", dt |-> Timed(E, dt),
                             branch |-> w.branch, raised |-> w.raised,
                             found |-> E.timing /\ (Found(obs) \/ w.raised = "RuntimeError")]
             ELSE \E shot \in ShootOutcomes(w.game) :
                  LET old == {h \in DOMAIN w.game.hostiles : ~w.game.hostiles[h].fresh}
                      n == Len(w.game.friendly_projectiles \o shot)
                  IN
                  /\ Cardinality(DOMAIN w.game.hostiles) <= E.hostiles
                  /\ n <= E.bullets
                  /\ \E ev \in [1..n -> Events(old, E.walls)] :
                     \E loot \in LootChoices(n, ev,
                                   IF E.drops THEN LootOutcomes(w.game.hard)
                                   ELSE {"none"}) :
                     \E touch \in {{}} \cup {{h} : h \in old} :
                     \E pickall \in IF E.drops THEN BOOLEAN ELSE {FALSE} :
                     LET r == rest_of_tick(w.game, w.level, shot, ev, loot, touch,
                                           pickall)
                     IN
                     /\ Len(r.game.items) <= MaxItems
                     /\ r.game.res_coins <= MaxCoins
                     /\ game' = r.game
                     /\ player' = items_of_tick(p0, r.picked)
                     /\ level' = r.level
                     /\ exc' = "none"
                     /\ obs' = [tick |-> "ran", dt |-> Timed(E, dt),
                                branch |-> w.branch, raised |-> w.raised,
                                found |-> E.timing /\ (Found(obs) \/ w.raised = "RuntimeError"),
                                hits |-> r.hits,
                                overlaps |-> Overlaps(E, ev),
                                touch |-> IF E.touch THEN touch ELSE {},
                                kill |-> r.kill,
                                pre |-> IF r.kill = "none" THEN NoKill ELSE r.pre,
                                post |-> IF r.kill = "none" THEN NoPost ELSE r.post]
    /\ UNCHANGED <<ret, calls, successes>>
    /\ UNCHANGED <<hostiles, tasks>>

\* GameView._show_player, run by the clock 1.0 s after kill_player
\* scheduled it; it schedules _allow_player_movement.
show_player ==
    /\ exc = "none"
    /\ <<"_show_player", 0>> \in game.scheduled
    /\ game' = [game EXCEPT
                  !.visible = TRUE,
                  !.scheduled = (@ \ {<<"_show_player", 0>>})
                                \cup {<<"_allow_player_movement", 1>>}]
    /\ UNCHANGED <<level, ret, exc, calls, successes, obs>>
    /\ UNCHANGED pathVars

\* GameView._allow_player_movement, run by the clock 1.0 s after
\* _show_player scheduled it.
allow_player_movement ==
    /\ exc = "none"
    /\ <<"_allow_player_movement", 0>> \in game.scheduled
    /\ game' = [game EXCEPT !.can_move = TRUE,
                            !.scheduled = @ \ {<<"_allow_player_movement", 0>>}]
    /\ UNCHANGED <<level, ret, exc, calls, successes, obs>>
    /\ UNCHANGED pathVars

(***************************************************************************)
(* SpecGame: a GameView after setup, over the level files of the model;    *)
(* the window calls on_update and the clock runs the scheduled callbacks.  *)
(* It explores the ticks in which the loot code drops nothing.             *)
(***************************************************************************)
GameLevelFiles ==
    {f \in LevelFiles :
        \A i \in 1..Len(f.waves) :
            f.waves[i] \in {<<IntSel(1), 1>>,
                            <<StrSel("boss_intro"), MaxWaveDuration>>}}

GameEnv == [drops |-> FALSE, walls |-> FALSE, bullets |-> 1,
            hostiles |-> MaxHostiles,
            timing |-> FALSE, touch |-> FALSE]

InitGame ==
    /\ level \in {Level_init(f) : f \in GameLevelFiles}
    /\ ret = <<>>
    /\ exc = "none"
    /\ calls = 0
    /\ successes = 0
    /\ \E hard \in BOOLEAN : game = GameView_setup(hard)
    /\ obs = NoObs
    /\ NoPath

NextGame ==
    \/ GameView_on_update(GameEnv)
    \/ show_player
    \/ allow_player_movement

SpecGame == InitGame /\ [][NextGame]_vars

(***************************************************************************)
(* Hostile and the pathfinding pool (model.py 27-134, 364-479).  The room  *)
(* is a corridor of tiles 1..MaxTile and a point is the tile it lies on;   *)
(* a hostile between two tiles has the tile it left as its center.         *)
(* next_point = NoPoint is None.  path_queue is the deque, its right end   *)
(* the end of the sequence; None and the empty deque, which the code       *)
(* tells apart nowhere, are both <<>>.                                     *)
(*                                                                         *)
(* tasks.reqs holds the requests the pool or a Hostile still refers to,    *)
(* each under the identity of its AsyncResult; tasks.queue is the pool's   *)
(* task queue.  pending_path_queue is such an identity, and 0 when it is   *)
(* None or an AsyncResult whose result on_update has taken: the code reads *)
(* the field only while path_pending is set (model.py 405), which only     *)
(* _walk_to_point sets, with a new handle.  Such an AsyncResult is         *)
(* garbage, and so are a request that is done and that no Hostile refers   *)
(* to and the fields of a Hostile the scene has dropped: the model holds   *)
(* none of them.                                                           *)
(***************************************************************************)
MaxTile == 2
MaxRequests == 3
NumHostiles == 2

AttackCooldown == 6
PoolSize == 3
NoPoint == 0

Tiles == 1..MaxTile
Abs(x) == IF x < 0 THEN -x ELSE x
Reverse(s) == [i \in 1..Len(s) |-> s[Len(s) + 1 - i]]

NoneResult == [kind |-> "none", route |-> <<>>]
EmptyResult == [kind |-> "empty", route |-> <<>>]

\* The tiles from origin to target, both included, as the A* search lists
\* them.
Route(origin, target) ==
    [i \in 1..(Abs(target - origin) + 1) |->
        IF target >= origin THEN origin + i - 1 ELSE origin - i + 1]

\* calc_path: what astar_calculate_path found, handed on as it is when it
\* is None or empty, else the route.  The walls of the room decide which;
\* the model leaves them open.
calc_path(origin, target) ==
    {NoneResult, EmptyResult, [kind |-> "route", route |-> Route(origin, target)]}

NoTasks == [reqs |-> <<>>, queue |-> <<>>]

\* The AsyncResult apply_async returns is a new object; NewHandleShared
\* is a faulty variant, one handle for every request.
NewHandleShared(ts) == 1
NewHandle(ts) ==
    CHOOSE i \in 1..(MaxRequests + 1) :
        /\ i \notin DOMAIN ts.reqs
        /\ \A j \in 1..(i - 1) : j \in DOMAIN ts.reqs

\* enqueue_pathfinder: the sprite's center and the target go to the pool
\* by value, under the handle apply_async returns.  owner is history: who
\* submitted the request.
enqueue_pathfinder(ts, handle, h, center, target_point) ==
    LET req == [owner |-> h, origin |-> center, target |-> target_point,
                status |-> "queued", result |-> NoneResult]
    IN [reqs |-> [i \in DOMAIN ts.reqs \cup {handle} |->
                     IF i = handle THEN req ELSE ts.reqs[i]],
        queue |-> Append(ts.queue, handle)]

ready(ts, handle) == ts.reqs[handle].status = "done"

\* The result of a call that raised in the worker; ready() is true of it.
RaisedResult == [kind |-> "raised", route |-> <<>>]

\* AsyncResult.get() of a ready handle (model.py 407): the value the call
\* returned, or the exception it raised in the worker, raised again in
\* the caller.
get(ts, handle) ==
    LET r == ts.reqs[handle].result IN
    IF r.kind = "raised"
    THEN [exc |-> "WorkerException", value |-> NoneResult]
    ELSE [exc |-> "none", value |-> r]

\* The requests that are left once those nothing refers to are dropped.
Referred(ts, hs) ==
    [reqs |-> Restrict(ts.reqs,
                 {i \in DOMAIN ts.reqs :
                     \/ ts.reqs[i].status \in {"queued", "running"}
                     \/ \E h \in DOMAIN hs : hs[h].pending_path_queue = i}),
     queue |-> ts.queue]

Hostile_init(tile) ==
    [center |-> tile,
     can_attack |-> TRUE,
     attack_age |-> AttackCooldown,
     next_point |-> NoPoint,
     path_queue |-> <<>>,
     path_pending |-> FALSE,
     pending_path_queue |-> 0,
     in_scene |-> TRUE]

\* Hostile._process_path.  deque.pop() of an empty deque raises
\* IndexError.  process_path_keep_first is a faulty variant that keeps the
\* first waypoint of the route also when the hostile is mid-step.
process_path_keep_first(hs, path) ==
    IF path.kind = "none"
    THEN [exc |-> "none", hostile |-> hs]
    ELSE [exc |-> "none", hostile |-> [hs EXCEPT !.path_queue = Reverse(path.route)]]

process_path(hs, path) ==
    IF path.kind = "none"
    THEN [exc |-> "none", hostile |-> hs]
    ELSE LET q == Reverse(path.route)
             h1 == [hs EXCEPT !.path_queue = q]
         IN IF hs.next_point # NoPoint
            THEN IF q = <<>>
                 THEN [exc |-> "IndexError", hostile |-> h1]
                 ELSE [exc |-> "none",
                       hostile |-> [h1 EXCEPT !.path_queue = SubSeq(q, 1, Len(q) - 1)]]
            ELSE [exc |-> "none", hostile |-> h1]

\* The guard of Hostile._walk_to_point (model.py 447) and the test of
\* Hostile.on_update before get() (model.py 405).  MaySubmitAlways and
\* ShouldCollectWhenPending are faulty variants: a submission whatever is
\* pending, and a get() that does not ask ready() first.
MaySubmitAlways(path_pending) == TRUE
MaySubmit(path_pending) == ~path_pending

ShouldCollectWhenPending(path_pending, is_ready) == path_pending
ShouldCollect(path_pending, is_ready) == path_pending /\ is_ready

\* Hostile._walk_to_point, on the pair [hostile, tasks].
walk_to_point(st, h, point) ==
    IF ~MaySubmit(st.hostile.path_pending)
    THEN st
    ELSE LET handle == NewHandle(st.tasks) IN
         [hostile |-> [st.hostile EXCEPT !.path_pending = TRUE,
                                         !.pending_path_queue = handle],
          tasks |-> enqueue_pathfinder(st.tasks, handle, h,
                                       st.hostile.center, point)]

\* The test of Hostile._walk_to_player (model.py 461): no route left (the
\* deque is None or empty), or the player is moving.  NeedsRouteAlways is a
\* faulty variant that asks for a route at every attack.
NeedsRouteAlways(path_queue, player_moved) == TRUE
NeedsRoute(path_queue, player_moved) == path_queue = <<>> \/ player_moved

\* Hostile._walk_to_player, which is Zombie.attack.  player_moved is the
\* field on_update has just set (model.py 409-412); nothing reads the
\* value an earlier tick left in it.
walk_to_player(st, h, pl, player_moved) ==
    IF NeedsRoute(st.hostile.path_queue, player_moved)
    THEN walk_to_point(st, h, pl.center)
    ELSE st

\* The test of model.py 414-417 on a Zombie, age being time.time() -
\* last_attack.  AttackDueAlways is a faulty variant without the cooldown.
AttackDueAlways(can_attack, age) == can_attack
AttackDue(can_attack, age) == can_attack /\ age >= AttackCooldown

\* Hostile.on_update of hostile h, dt tenths of a second after its last
\* tick.  arrive says whether the sprite is within one step of next_point;
\* a sprite on the tile of next_point is.  The result is the hostile and
\* the tasks the tick leaves and the exception it raised.
Hostile_tick(h, dt, arrive) ==
    LET hs0 == hostiles[h]
        handle == hs0.pending_path_queue
        is_ready == IF hs0.path_pending THEN ready(tasks, handle) ELSE FALSE
        collect == ShouldCollect(hs0.path_pending, is_ready)
        got == IF collect THEN get(tasks, handle)
               ELSE [exc |-> "none", value |-> NoneResult]
        path == got.value
        hs1 == [hs0 EXCEPT !.path_pending = FALSE, !.pending_path_queue = 0]
        \* 405-407: poll, and install what get() returns
        p1 == IF collect
              THEN IF got.exc # "none"
                   THEN [exc |-> got.exc, hostile |-> hs1]
                   ELSE process_path(hs1, path)
              ELSE [exc |-> "none", hostile |-> hs0]
        ts1 == tasks
        \* 409-412
        h2 == p1.hostile
        player_moved == player.moving
        \* 414-419: the attack timer
        age == Older(h2.attack_age, dt, AttackCooldown)
        attacks == AttackDue(h2.can_attack, age)
        st3 == IF attacks
               THEN LET w == walk_to_player([hostile |-> h2, tasks |-> ts1], h,
                                            player, player_moved)
                    IN [w EXCEPT !.hostile.attack_age = 0]
               ELSE [hostile |-> [h2 EXCEPT !.attack_age = age], tasks |-> ts1]
        h3 == st3.hostile
        \* 421-437: arrival at next_point
        arrives == h3.next_point # NoPoint /\ (arrive \/ h3.next_point = h3.center)
        h4 == IF arrives
              THEN [h3 EXCEPT !.center = h3.next_point, !.next_point = NoPoint]
              ELSE h3
        \* 439-444: the next waypoint
        steps == h4.next_point = NoPoint /\ h4.path_queue # <<>>
        h5 == IF steps
              THEN [h4 EXCEPT !.next_point = h4.path_queue[Len(h4.path_queue)],
                              !.path_queue = SubSeq(@, 1, Len(@) - 1)]
              ELSE h4
    IN IF p1.exc # "none"
       THEN [exc |-> p1.exc, hostile |-> p1.hostile, tasks |-> ts1]
       ELSE [exc |-> "none", hostile |-> h5, tasks |-> st3.tasks]

TickTenths == {3, AttackCooldown}

Hostile_on_update(h) ==
    /\ exc = "none"
    /\ hostiles[h].in_scene
    /\ \E dt \in TickTenths, arrive \in BOOLEAN :
         LET r == Hostile_tick(h, dt, arrive) IN
         /\ Cardinality(DOMAIN r.tasks.reqs) <= MaxRequests
         /\ hostiles' = [hostiles EXCEPT ![h] = r.hostile]
         /\ tasks' = Referred(r.tasks, hostiles')
         /\ exc' = r.exc
    /\ UNCHANGED <<level, ret, calls, successes, player>>
    /\ UNCHANGED gameVars

\* Whether one of the Pool(3) worker processes is idle (model.py 32-34);
\* WorkerFreeAlways is a faulty variant, a pool without a limit.
Running(ts) == {i \in DOMAIN ts.reqs : ts.reqs[i].status = "running"}

WorkerFreeAlways(ts) == TRUE
WorkerFree(ts) == Cardinality(Running(ts)) < PoolSize

\* A worker of the pool takes the oldest request waiting (model.py 32-34,
\* 52-54).
worker_start ==
    /\ exc = "none"
    /\ tasks.queue # <<>>
    /\ WorkerFree(tasks)
    /\ tasks' = [tasks EXCEPT !.reqs[Head(tasks.queue)].status = "running",
                              !.queue = Tail(@)]
    /\ UNCHANGED <<level, ret, exc, calls, successes, hostiles, player>>
    /\ UNCHANGED gameVars

\* A worker returns from _calc_path_pkl (model.py 57-86): the handle of
\* its request becomes ready.
worker_finish ==
    /\ exc = "none"
    /\ \E i \in DOMAIN tasks.reqs :
         /\ tasks.reqs[i].status = "running"
         /\ \E path \in calc_path(tasks.reqs[i].origin, tasks.reqs[i].target) :
              tasks' = Referred([tasks EXCEPT !.reqs[i].status = "done",
                                              !.reqs[i].result = path],
                                hostiles)
    /\ UNCHANGED <<level, ret, exc, calls, successes, hostiles, player>>
    /\ UNCHANGED gameVars

\* The scene loses hostile h: a projectile killed it (views.py 832-834) or
\* kill_player cleared the room (views.py 880-882).  Nothing calls its
\* on_update again; of its fields the model keeps path_pending and the
\* handle, which tell its request.
remove_hostile(h) ==
    /\ exc = "none"
    /\ hostiles[h].in_scene
    /\ hostiles' = [hostiles EXCEPT
                      ![h] = [Hostile_init(0) EXCEPT
                                 !.in_scene = FALSE,
                                 !.path_pending = hostiles[h].path_pending,
                                 !.pending_path_queue = hostiles[h].pending_path_queue]]
    /\ UNCHANGED <<level, ret, exc, calls, successes, tasks, player>>
    /\ UNCHANGED gameVars

\* The player walks, within its tile, or stands still.
player_moves ==
    /\ exc = "none"
    /\ ~player.moving
    /\ player' = [player EXCEPT !.moving = TRUE]
    /\ UNCHANGED <<level, ret, exc, calls, successes, hostiles, tasks>>
    /\ UNCHANGED gameVars

player_stops ==
    /\ exc = "none"
    /\ player.moving
    /\ player' = [player EXCEPT !.moving = FALSE]
    /\ UNCHANGED <<level, ret, exc, calls, successes, hostiles, tasks>>
    /\ UNCHANGED gameVars

(***************************************************************************)
(* SpecPath: a room of NumHostiles zombies at the two ends of the          *)
(* corridor and a player between them; the scene updates the hostiles,     *)
(* the pool's workers run beside it, hostiles die.                         *)
(***************************************************************************)
InitPath ==
    /\ level = Level_init([mobs_probabilities |-> {"zombie"}, waves |-> <<>>,
                           special_waves |-> SpecialWaves])
    /\ ret = <<>>
    /\ exc = "none"
    /\ calls = 0
    /\ successes = 0
    /\ game = NoGame
    /\ obs = NoObs
    /\ hostiles = [h \in 1..NumHostiles |->
                      Hostile_init(IF h = 1 THEN 1 ELSE MaxTile)]
    /\ tasks = NoTasks
    /\ player \in [center : Tiles, moving : BOOLEAN]

NextPath ==
    \/ \E h \in 1..NumHostiles : Hostile_on_update(h)
    \/ worker_start
    \/ worker_finish
    \/ \E h \in 1..NumHostiles : remove_hostile(h)
    \/ player_moves
    \/ player_stops

SpecPath == InitPath /\ [][NextPath]_vars

(***************************************************************************)
(* C3.  A death with a coin left: kill_player consumes exactly one coin    *)
(* (with res_coins = 1 it leaves 0), removes every hostile, friendly       *)
(* projectile and hostile projectile from the scene and sets the wave      *)
(* cursor to max(current_wave - 2, 0).                                     *)
(***************************************************************************)
C3_ResurrectionRecovery ==
    (obs.tick = "ran" /\ obs.kill # "none" /\ obs.pre.res_coins >= 1) =>
        /\ obs.kill = "resurrected"
        /\ obs.post.res_coins = obs.pre.res_coins - 1
        /\ obs.post.current_wave = Max(obs.pre.current_wave - 2, 0)
        /\ obs.post.hostiles = {}
        /\ obs.post.friendly_projectiles = 0
        /\ obs.post.hostile_projectiles = 0
        /\ game.res_coins = obs.pre.res_coins - 1
        /\ level.current_wave = Max(obs.pre.current_wave - 2, 0)
        /\ DOMAIN game.hostiles = {}
        /\ game.friendly_projectiles = <<>>
        /\ game.hostile_projectiles = <<>>

\* The last coin is consumed in a scene that held hostiles and a
\* projectile, two waves into the level.
C3_Witness ==
    /\ obs.tick = "ran"
    /\ obs.kill = "resurrected"
    /\ obs.pre.res_coins = 1
    /\ obs.pre.current_wave = 2
    /\ obs.pre.hostiles # {}
    /\ obs.pre.friendly_projectiles > 0
    /\ game.res_coins = 0
    /\ level.current_wave = 0

(***************************************************************************)
(* C4.  A player projectile created with penetration 2 is removed after    *)
(* exactly its second hit: it is in the scene with fewer than two hits,    *)
(* a hit removes it exactly when it is its second, it never hits a third   *)
(* time, and each hostile it hits loses its damage once; a hostile it has  *)
(* not hit keeps its hp.                                                   *)
(***************************************************************************)
C4_PenetrationTwo ==
    /\ \A i \in 1..Len(game.friendly_projectiles) :
          LET p == game.friendly_projectiles[i] IN
          p.penetration = 2 =>
              /\ p.nhits < 2
              /\ p.remaining_penetration = 2 - p.nhits
    /\ \A h \in DOMAIN game.hostiles : game.hostiles[h].hp = ZombieHP
    /\ obs.tick = "ran" =>
          \A k \in 1..Len(obs.hits) :
              LET e == obs.hits[k] IN
              e.penetration = 2 =>
                  /\ e.nhits \in {1, 2}
                  /\ e.bullet_removed <=> (e.nhits = 2)
                  /\ e.hp_after = e.hp_before - e.damage
                  /\ \A j \in 1..Len(obs.hits) :
                        (j # k /\ obs.hits[j].bullet = e.bullet)
                            => obs.hits[j].hostile # e.hostile

\* The second hit of a projectile of penetration 2 has removed it, and a
\* further hostile stands in the scene.
C4_Witness ==
    /\ obs.tick = "ran"
    /\ \E k \in 1..Len(obs.hits) :
          /\ obs.hits[k].penetration = 2
          /\ obs.hits[k].nhits = 2
          /\ obs.hits[k].bullet_removed
    /\ game.friendly_projectiles = <<>>
    /\ \E h \in DOMAIN game.hostiles : game.hostiles[h].hp = ZombieHP

(***************************************************************************)
(* C5.  From a fresh Level, next_wave returns exactly len(waves) times,    *)
(* each time advancing current_wave by one; every later call raises the    *)
(* exhaustion RuntimeError and leaves current_wave where it was.           *)
(***************************************************************************)
C5_NextWaveExhaustion ==
    /\ successes = Min(calls, Len(level.waves))
    /\ level.current_wave = successes
    /\ (calls \in 1..Len(level.waves) => exc = "none")
    /\ (calls > Len(level.waves) => exc = "RuntimeError")

\* waves = [(2, 1), ("boss_intro", 3)]: the third call has raised.
C5_Witness ==
    /\ level.waves = <<<<IntSel(2), 1>>, <<StrSel("boss_intro"), MaxWaveDuration>>>>
    /\ calls = 3
    /\ successes = 2
    /\ exc = "RuntimeError"
    /\ level.current_wave = 2

(***************************************************************************)
(* C6.  Wave exhaustion never escapes the tick: whichever branch of        *)
(* GameView.on_update calls new_wave, a RuntimeError it raises is caught   *)
(* and the tick completes.                                                 *)
(***************************************************************************)
C6_ExhaustionNeverEscapes == exc # "RuntimeError"

(***************************************************************************)
(* C7.  level.current_wave never decreases.                                *)
(***************************************************************************)
C7_CursorNeverDecreases ==
    [][level'.current_wave >= level.current_wave]_vars

(***************************************************************************)
(* C7, amended.  level.current_wave never passes len(waves) and never      *)
(* wraps; it decreases only in a tick in which kill_player consumes a      *)
(* coin, which sets it to max(current_wave - 2, 0).                        *)
(***************************************************************************)
C7_CursorDecreasesOnlyByResurrection ==
    [][/\ level'.current_wave \in 0..Len(level'.waves)
       /\ IF obs'.tick = "ran" /\ obs'.kill = "resurrected"
          THEN /\ obs'.pre.current_wave >= level.current_wave
               /\ level'.current_wave = Max(obs'.pre.current_wave - 2, 0)
          ELSE level'.current_wave >= level.current_wave]_vars

\* A resurrection has taken the cursor from 2 back to 0.
C7_Witness ==
    /\ obs.tick = "ran"
    /\ obs.kill = "resurrected"
    /\ obs.pre.current_wave = 2
    /\ level.current_wave = 0
    /\ Len(level.waves) = 2

(***************************************************************************)
(* The requests of hostile h that the pool holds and whose result no       *)
(* on_update has taken.                                                    *)
(***************************************************************************)
Outstanding(h) == {i \in DOMAIN tasks.reqs : tasks.reqs[i].owner = h}

IsPrefix(s, t) == Len(s) <= Len(t) /\ s = SubSeq(t, 1, Len(s))

(***************************************************************************)
(* C1.  For every Hostile, path_pending is true exactly when it has one    *)
(* request submitted whose result it has not consumed, and its handle is   *)
(* that request; no hostile ever has two outstanding requests.             *)
(***************************************************************************)
C1_PendingIffOneRequest ==
    \A h \in DOMAIN hostiles :
        /\ Cardinality(Outstanding(h)) = IF hostiles[h].path_pending THEN 1 ELSE 0
        /\ hostiles[h].path_pending =>
              Outstanding(h) = {hostiles[h].pending_path_queue}

\* Hostile 1 has consumed a result and walks its route; hostile 2 waits
\* for a request a worker is computing, and a tick has passed since it
\* submitted it.
C1_Witness ==
    /\ ~hostiles[1].path_pending
    /\ hostiles[1].next_point # NoPoint
    /\ hostiles[2].in_scene
    /\ hostiles[2].path_pending
    /\ hostiles[2].attack_age > 0
    /\ tasks.reqs[hostiles[2].pending_path_queue].status = "running"

(***************************************************************************)
(* C2.  Hostile.on_update never waits for pathfinding.  It takes the       *)
(* result of its handle only in a tick in which the handle is ready.  In   *)
(* a tick in which it is pending and not ready the handle and the request  *)
(* stay as they are, path_pending stays true, and the rest of the tick     *)
(* runs: the attack timer restarts or grows, a sprite on its waypoint      *)
(* arrives, and a sprite without a waypoint takes the next one of its      *)
(* route.                                                                  *)
(***************************************************************************)
C2_TickNeverWaits ==
    [][\A h \in DOMAIN hostiles :
          LET hs == hostiles[h]
              handle == hs.pending_path_queue
          IN
          (Hostile_on_update(h) /\ hs.path_pending) =>
              /\ (hostiles'[h].pending_path_queue # handle) => ready(tasks, handle)
              /\ (handle \notin DOMAIN tasks'.reqs) => ready(tasks, handle)
              /\ ~ready(tasks, handle) =>
                    /\ exc' = "none"
                    /\ hostiles'[h].path_pending
                    /\ hostiles'[h].pending_path_queue = handle
                    /\ tasks' = tasks
                    /\ \/ hostiles'[h].attack_age = 0
                       \/ hostiles'[h].attack_age > hs.attack_age
                    /\ (hs.next_point # NoPoint /\ hs.next_point = hs.center) =>
                          \/ hostiles'[h].next_point # hs.next_point
                          \/ hs.path_queue # <<>>
                    /\ (hs.next_point = NoPoint /\ hs.path_queue # <<>>) =>
                          /\ hostiles'[h].next_point = hs.path_queue[Len(hs.path_queue)]
                          /\ hostiles'[h].path_queue =
                                SubSeq(hs.path_queue, 1, Len(hs.path_queue) - 1)
      ]_vars

\* A hostile walks to a waypoint while its request is still with a worker,
\* and a tick in which the attack was not due has passed since it
\* submitted the request.
C2_Witness ==
    \E h \in DOMAIN hostiles :
        /\ hostiles[h].in_scene
        /\ hostiles[h].path_pending
        /\ tasks.reqs[hostiles[h].pending_path_queue].status = "running"
        /\ hostiles[h].attack_age = 3
        /\ hostiles[h].next_point # NoPoint

(***************************************************************************)
(* C8.  When the result a tick collects is None or an empty sequence,      *)
(* Hostile.on_update raises no error, clears path_pending and leaves       *)
(* path_queue and next_point as they were, also when next_point is set.    *)
(***************************************************************************)
C8_NoRouteTolerated ==
    [][\A h \in DOMAIN hostiles :
          LET hs == hostiles[h]
              handle == hs.pending_path_queue
          IN
          (/\ Hostile_on_update(h)
           /\ hs.path_pending
           /\ ready(tasks, handle)
           /\ tasks.reqs[handle].result.kind \in {"none", "empty"}) =>
              LET p == process_path([hs EXCEPT !.path_pending = FALSE],
                                    tasks.reqs[handle].result)
              IN /\ exc' = "none"
                 /\ p.exc = "none"
                 /\ ~p.hostile.path_pending
                 /\ p.hostile.path_queue = hs.path_queue
                 /\ p.hostile.next_point = hs.next_point
      ]_vars

(***************************************************************************)
(* C9.  Once a hostile has left the scene with its request pending, its    *)
(* result is never taken by any hostile and no tick raises an error.       *)
(***************************************************************************)
C9_StaleRequestHarmless ==
    \A h \in DOMAIN hostiles :
        (~hostiles[h].in_scene /\ hostiles[h].path_pending) =>
            /\ exc = "none"
            /\ hostiles[h].pending_path_queue \in Outstanding(h)

(***************************************************************************)
(* C10.  The result a hostile installs is the result of a request this     *)
(* hostile submitted, computed from the origin and the target it           *)
(* submitted: a request carries its submitter, the submitter's center and  *)
(* the player's center, nothing changes them, and a tick takes the result  *)
(* of a request of its own hostile only, leaving in path_queue the front   *)
(* of that route reversed.                                                 *)
(***************************************************************************)
C10_OwnResultOnly ==
    [][\A h \in DOMAIN hostiles :
          LET hs == hostiles[h]
              handle == hs.pending_path_queue
          IN
          Hostile_on_update(h) =>
              /\ \A i \in DOMAIN tasks'.reqs :
                    IF i \in DOMAIN tasks.reqs
                    THEN /\ tasks'.reqs[i].owner = tasks.reqs[i].owner
                         /\ tasks'.reqs[i].origin = tasks.reqs[i].origin
                         /\ tasks'.reqs[i].target = tasks.reqs[i].target
                    ELSE /\ tasks'.reqs[i].owner = h
                         /\ tasks'.reqs[i].origin = hs.center
                         /\ tasks'.reqs[i].target = player.center
                         /\ hostiles'[h].pending_path_queue = i
              /\ (hs.path_pending /\ ready(tasks, handle)) =>
                    LET req == tasks.reqs[handle] IN
                    /\ req.owner = h
                    /\ req.result \in calc_path(req.origin, req.target)
                    /\ (req.result.kind = "route" /\ exc' = "none") =>
                          /\ IsPrefix(hostiles'[h].path_queue,
                                      Reverse(Route(req.origin, req.target)))
                          /\ Len(hostiles'[h].path_queue) < Len(req.result.route)
      ]_vars

\* Both hostiles walk routes of their own, each taken from its own
\* result.
C10_Witness ==
    /\ \A h \in DOMAIN hostiles :
          /\ hostiles[h].in_scene
          /\ ~hostiles[h].path_pending
          /\ hostiles[h].next_point # NoPoint
    /\ hostiles[1].next_point # hostiles[2].next_point
    /\ \E h \in DOMAIN hostiles : hostiles[h].path_queue # <<>>

(***************************************************************************)
(* SpecPool: MaxRequests + 1 hostiles that each call _walk_to_point, and   *)
(* the pool's workers.  No result is taken, no handle is dropped, so the   *)
(* handles are numbered in the order of submission.                        *)
(***************************************************************************)
Hostile_walk_to_point(h) ==
    /\ exc = "none"
    /\ LET st == walk_to_point([hostile |-> hostiles[h], tasks |-> tasks],
                               h, player.center)
       IN /\ hostiles' = [hostiles EXCEPT ![h] = st.hostile]
          /\ tasks' = st.tasks
    /\ UNCHANGED <<level, ret, exc, calls, successes, player>>
    /\ UNCHANGED gameVars

InitPool ==
    /\ level = Level_init([mobs_probabilities |-> {"zombie"}, waves |-> <<>>,
                           special_waves |-> SpecialWaves])
    /\ ret = <<>>
    /\ exc = "none"
    /\ calls = 0
    /\ successes = 0
    /\ game = NoGame
    /\ obs = NoObs
    /\ hostiles = [h \in 1..(MaxRequests + 1) |-> Hostile_init(1)]
    /\ tasks = NoTasks
    /\ player \in [center : Tiles, moving : {FALSE}]

NextPool ==
    \/ \E h \in DOMAIN hostiles : Hostile_walk_to_point(h)
    \/ worker_start
    \/ worker_finish

SpecPool == InitPool /\ [][NextPool]_vars

(***************************************************************************)
(* C11.  enqueue_pathfinder returns a handle without waiting: a            *)
(* submission adds its request as waiting, hands its handle to the         *)
(* hostile in the same step and touches no other request, whatever the     *)
(* workers are doing.  At most PoolSize = 3 requests are being computed,   *)
(* and requests are started in the order of their submission: no request   *)
(* waits while one submitted after it has been started.                    *)
(***************************************************************************)
C11_PoolOfThreeFifo ==
    [][/\ Cardinality(Running(tasks')) <= PoolSize
       /\ \A i \in DOMAIN tasks'.reqs, j \in DOMAIN tasks'.reqs :
             (i < j /\ tasks'.reqs[j].status # "queued")
                 => tasks'.reqs[i].status # "queued"
       /\ \A h \in DOMAIN hostiles :
             (~hostiles[h].path_pending /\ Hostile_walk_to_point(h)) =>
                 LET handle == hostiles'[h].pending_path_queue IN
                 /\ hostiles'[h].path_pending
                 /\ handle \notin DOMAIN tasks.reqs
                 /\ DOMAIN tasks'.reqs = DOMAIN tasks.reqs \cup {handle}
                 /\ tasks'.reqs[handle].status = "queued"
                 /\ \A i \in DOMAIN tasks.reqs : tasks'.reqs[i] = tasks.reqs[i]
                 /\ \A i \in DOMAIN tasks.reqs : i < handle
      ]_vars

\* Three requests are being computed and a fourth, submitted meanwhile,
\* waits with its handle in its hostile's hands.
C11_Witness ==
    /\ Cardinality(Running(tasks)) = PoolSize
    /\ Len(tasks.queue) >= 1
    /\ \A i \in Running(tasks) : i < Head(tasks.queue)
    /\ \E h \in DOMAIN hostiles :
          /\ hostiles[h].path_pending
          /\ hostiles[h].pending_path_queue = Head(tasks.queue)

ItemTicks == {6, 7}

Player_use_item ==
    /\ player' = use_item(player)
    /\ UNCHANGED <<level, ret, exc, calls, successes, hostiles, tasks>>
    /\ UNCHANGED gameVars

\* GameView.on_update hands the player an item it walked over (views.py
\* 861-866).
Player_pickup_item ==
    /\ \E type \in ItemPool : player' = pickup_item(player, NewItem(player, type))
    /\ UNCHANGED <<level, ret, exc, calls, successes, hostiles, tasks>>
    /\ UNCHANGED gameVars

Player_on_update ==
    /\ \E dt \in ItemTicks : player' = expire_active_items(player, dt)
    /\ UNCHANGED <<level, ret, exc, calls, successes, hostiles, tasks>>
    /\ UNCHANGED gameVars

(***************************************************************************)
(* SpecItems: a Player that picks up items of ItemPool, uses the stored    *)
(* one and is updated as time passes.                                      *)
(***************************************************************************)
InitItems ==
    /\ level = Level_init([mobs_probabilities |-> {"zombie"}, waves |-> <<>>,
                           special_waves |-> SpecialWaves])
    /\ ret = <<>>
    /\ exc = "none"
    /\ calls = 0
    /\ successes = 0
    /\ game = NoGame
    /\ obs = NoObs
    /\ hostiles = <<>>
    /\ tasks = NoTasks
    /\ player = Player_init

NextItems ==
    \/ Player_use_item
    \/ Player_pickup_item
    \/ Player_on_update

SpecItems == InitItems /\ [][NextItems]_vars

\* The identities in active_items, and the active item of an identity.
ActiveIds(pl) == {pl.active_items[i].id : i \in 1..Len(pl.active_items)}
ActiveOf(pl, id) ==
    pl.active_items[CHOOSE i \in 1..Len(pl.active_items) : pl.active_items[i].id = id]

(***************************************************************************)
(* C12.  pickup_item(new) while an item old is stored activates old: old   *)
(* enters active_items with its timer started, in place of any active      *)
(* item of old's type, and new becomes the stored item.  With nothing      *)
(* stored it only stores new and leaves active_items as it is.             *)
(***************************************************************************)
C12_PickupActivatesStored ==
    [][Player_pickup_item =>
          LET old == player.stored_item IN
          IF old = NoItem
          THEN /\ player'.stored_item # NoItem
               /\ player'.stored_item.id \notin HeldIds(player)
               /\ player'.active_items = player.active_items
          ELSE /\ old.id \in ActiveIds(player')
               /\ ActiveOf(player', old.id).used
               /\ ActiveOf(player', old.id).age = 0
               /\ \A i \in 1..Len(player'.active_items) :
                     player'.active_items[i].type = old.type
                         => player'.active_items[i].id = old.id
               /\ player'.stored_item # NoItem
               /\ player'.stored_item.id \notin HeldIds(player)
      ]_vars

(***************************************************************************)
(* C13.  active_items holds at most one item of each type, after any       *)
(* sequence of use_item, pickup_item and on_update.  An item that a step   *)
(* makes active has its timer at the moment of the step, and the item of   *)
(* its type that was active before is no longer in the list.               *)
(***************************************************************************)
C13_OneActivePerType ==
    [][/\ \A i \in 1..Len(player'.active_items), j \in 1..Len(player'.active_items) :
             i # j => player'.active_items[i].type # player'.active_items[j].type
       /\ \A id \in ActiveIds(player') \ ActiveIds(player) :
             LET item == ActiveOf(player', id) IN
             /\ item.used
             /\ item.age = 0
             /\ \A old \in ActiveIds(player) :
                   ActiveOf(player, old).type = item.type
                       => /\ old \notin ActiveIds(player')
                          /\ old \in player'.log.removed
      ]_vars

\* use_item has put the stored item in the place of an active item of its
\* type, while an item of another type stays active with its timer
\* running.
C13_Witness ==
    /\ player.log.op = "use_item"
    /\ player.log.removed # {}
    /\ Len(player.active_items) = 2
    /\ player.active_items[1].age > 0
    /\ player.active_items[2].age = 0
    /\ player.stored_item = NoItem

(***************************************************************************)
(* SpecWaves: a driver that loads one of the level files WaveFiles and     *)
(* calls next_wave again and again.  The files list two mobs, a special    *)
(* wave of both, and waves that name a composition the special_waves       *)
(* table does not have.                                                    *)
(***************************************************************************)
NoLevel == [path |-> "none"]
IsLoaded(lv) == "waves" \in DOMAIN lv

WaveSpecialWaves == [boss_intro |-> [zombie |-> 2, giant |-> 1]]

WaveFileEntries ==
    {<<IntSel(n), 1>> : n \in 0..MaxMobs}
    \cup {<<StrSel("boss_intro"), 1>>, <<StrSel("final_boss"), 1>>}

WaveFiles ==
    {[mobs_probabilities |-> p, waves |-> w, special_waves |-> WaveSpecialWaves] :
        p \in {{"zombie"}, {"zombie", "giant"}},
        w \in SeqsUpTo(WaveFileEntries, MaxWaves)}

\* The special waves of a level file that name no entry of special_waves.
Dangling(specs) ==
    {i \in 1..Len(specs.waves) :
        /\ specs.waves[i][1].kind = "str"
        /\ specs.waves[i][1].name \notin DOMAIN specs.special_waves}

\* Level(path): __init__ reads the four tables and returns.
Level_load(specs) ==
    /\ ~IsLoaded(level)
    /\ level' = Level_init(specs)
    /\ exc' = "none"
    /\ UNCHANGED <<ret, calls, successes>>
    /\ UNCHANGED gameVars
    /\ UNCHANGED pathVars

InitWaves ==
    /\ level = NoLevel
    /\ ret = <<>>
    /\ exc = "none"
    /\ calls = 0
    /\ successes = 0
    /\ game = NoGame
    /\ obs = NoObs
    /\ NoPath

NextWaves ==
    \/ \E specs \in WaveFiles : Level_load(specs)
    \/ (IsLoaded(level) /\ CallNextWave)

SpecWaves == InitWaves /\ [][NextWaves]_vars

\* How often mob occurs in the list dist.
Count(dist, mob) == Cardinality({i \in 1..Len(dist) : dist[i] = mob})

(***************************************************************************)
(* C14.  A next_wave call that serves a wave whose selector is the         *)
(* integer n returns, with exactly n identifiers, each a key of            *)
(* mobs_probabilities.                                                     *)
(***************************************************************************)
C14_ProbabilisticWaveSize ==
    [][(IsLoaded(level) /\ CallNextWave /\ ~Exhausted(level)) =>
          LET wave == level.waves[level.current_wave + 1] IN
          wave[1].kind = "int" =>
              /\ exc' = "none"
              /\ Len(ret') = wave[1].n
              /\ \A i \in 1..Len(ret') : ret'[i] \in level.mobs_probabilities
      ]_vars

\* A wave of MaxMobs mobs has been served from a file of two mobs, and
\* both are in it.
C14_Witness ==
    /\ IsLoaded(level)
    /\ exc = "none"
    /\ level.current_wave = 1
    /\ level.waves[1][1] = IntSel(MaxMobs)
    /\ Len(ret) = MaxMobs
    /\ {ret[i] : i \in 1..Len(ret)} = {"zombie", "giant"}

(***************************************************************************)
(* C15.  A next_wave call that serves a special wave returns each mob of   *)
(* special_waves[name] exactly as often as the table says and nothing      *)
(* else, and every order of that multiset is a possible result.            *)
(***************************************************************************)
C15_SpecialWaveMultiset ==
    [][(IsLoaded(level) /\ CallNextWave /\ ~Exhausted(level)) =>
          LET wave == level.waves[level.current_wave + 1] IN
          (wave[1].kind = "str" /\ wave[1].name \in DOMAIN level.special_waves) =>
              LET table == level.special_waves[wave[1].name]
                  Matches(dist) ==
                      /\ \A mob \in DOMAIN table : Count(dist, mob) = table[mob]
                      /\ \A i \in 1..Len(dist) : dist[i] \in DOMAIN table
              IN /\ exc' = "none"
                 /\ Matches(ret')
                 /\ \A dist \in SeqsOfLen(DOMAIN table, Len(ret')) :
                       Matches(dist) =>
                           \E r \in next_wave(level) : r.exc = "none" /\ r.dist = dist
      ]_vars

\* The special wave of two zombies and a giant has been served with the
\* giant between the zombies.
C15_Witness ==
    /\ IsLoaded(level)
    /\ exc = "none"
    /\ level.current_wave = 1
    /\ level.waves[1][1] = StrSel("boss_intro")
    /\ ret = <<"zombie", "giant", "zombie">>

(***************************************************************************)
(* C16.  Loading a level file whose waves name a special composition that  *)
(* special_waves does not have fails in Level.__init__; no next_wave call  *)
(* is left to find the name missing.                                       *)
(***************************************************************************)
C16_MissingCompositionFailsAtLoad ==
    [][/\ \A specs \in WaveFiles :
             (Level_load(specs) /\ Dangling(specs) # {}) => exc' # "none"
       /\ (IsLoaded(level) /\ CallNextWave) => exc' # "KeyError"
      ]_vars

(***************************************************************************)
(* SpecSave: the main menu, the pause menu of the game view and the game   *)
(* save.  game holds the view on screen, the GameView fields current_map,  *)
(* hard, paused and pause_selected_item, and window.gamesave.unfinished_run;*)
(* player holds the Player of the game view.                               *)
(***************************************************************************)
MaxLevel == 1

NoRun == [map |-> "none"]
NoPlayerObject == [armor |-> -1]

Maps == {"d1r1", "d1r2"}
StoredItems == {"none"} \cup ItemPool

\* UnfinishedRun(map, armor, gun, ammo, stored_item, res_coins, hard).
UnfinishedRun(map, armor, gun, ammo, stored_item, res_coins, hard) ==
    [map |-> map, armor |-> armor, gun |-> gun, ammo |-> ammo,
     stored_item |-> stored_item, res_coins |-> res_coins, hard |-> hard]

\* What load_pickle_game_save may find in the save file: no run, or any run.
SavedRuns ==
    {UnfinishedRun(mp, ar, gu, am, st, rc, hd) :
        mp \in Maps, ar \in 0..MaxLevel, gu \in 0..MaxLevel, am \in {0},
        st \in StoredItems, rc \in {0, MaxCoins}, hd \in BOOLEAN}

\* Player(): three Upgrade() of level 0, nothing stored, no coin.
Player_new == [armor |-> 0, gun |-> 0, ammo |-> 0, stored_item |-> "none",
               res_coins |-> 0]

\* MenuView.on_key_press(ENTER) on start_game or resume_game; resume_game is
\* on the menu only when the game save holds a run.
MenuView_on_key_press(item) ==
    /\ exc = "none"
    /\ game.view = "menu"
    /\ item = "resume_game" => game.unfinished_run # NoRun
    /\ game' = [game EXCEPT
                  !.unfinished_run = IF item = "start_game" THEN NoRun ELSE @,
                  !.view = "next_view"]
    /\ UNCHANGED <<player, exc>>

\* GameView.setup_player: a new Player with the coins of the mode.
setup_player(hard) ==
    [Player_new EXCEPT !.res_coins = IF ~hard THEN StartCoins ELSE 0]

\* GameView.setup on a view whose player attribute is pl (NoPlayerObject on
\* a view that never ran setup_player).
GameView_setup_run(g, pl) ==
    LET run == g.unfinished_run
        resumed == run # NoRun
        hard == IF resumed THEN run.hard ELSE FALSE
    IN IF resumed /\ pl = NoPlayerObject
       THEN [exc |-> "AttributeError", game |-> g, player |-> pl]
       ELSE [exc |-> "none",
             game |-> [g EXCEPT !.view = "game",
                                !.paused = FALSE,
                                !.pause_selected_item = "pause_continue",
                                !.current_map = IF resumed THEN run.map ELSE "d1r1",
                                !.hard = hard],
             player |-> setup_player(hard)]

\* The window shows next_view, a new GameView, and runs its setup.
GameView_show ==
    /\ exc = "none"
    /\ game.view = "next_view"
    /\ LET r == GameView_setup_run(game, NoPlayerObject) IN
         /\ exc' = r.exc
         /\ game' = r.game
         /\ player' = r.player

\* GameView.on_update, the player touches an item on the ground: a
\* resurrection coin is added, another item goes through pickup_item.
GameView_collect(type) ==
    /\ exc = "none"
    /\ game.view = "game"
    /\ ~game.paused
    /\ IF type = "ResurrectionCoin"
       THEN /\ player.res_coins < MaxCoins
            /\ player' = [player EXCEPT !.res_coins = @ + 1]
       ELSE player' = [player EXCEPT !.stored_item =
                                  IF @ = "none" THEN type ELSE @]
    /\ UNCHANGED <<game, exc>>

\* GameView.on_key_press for ESCAPE, UP, DOWN, ENTER and the use_item key.
GameView_on_key_press(symbol) ==
    /\ exc = "none"
    /\ game.view = "game"
    /\ LET paused == IF symbol = "ESCAPE" THEN ~game.paused ELSE game.paused
           sel == IF symbol = "ESCAPE" THEN "pause_continue"
                  ELSE game.pause_selected_item
       IN IF paused
          THEN CASE symbol = "UP" ->
                      /\ game' = [game EXCEPT !.pause_selected_item =
                                    IF sel = "pause_exit" THEN "pause_continue"
                                    ELSE IF sel = "pause_exit_without_saving"
                                         THEN "pause_exit" ELSE sel]
                      /\ UNCHANGED <<player, exc>>
                 [] symbol = "DOWN" ->
                      /\ game' = [game EXCEPT !.pause_selected_item =
                                    IF sel = "pause_continue" THEN "pause_exit"
                                    ELSE IF sel = "pause_exit"
                                         THEN "pause_exit_without_saving" ELSE sel]
                      /\ UNCHANGED <<player, exc>>
                 [] symbol = "ENTER" /\ sel = "pause_continue" ->
                      /\ game' = [game EXCEPT !.paused = FALSE,
                                              !.pause_selected_item = "pause_continue"]
                      /\ UNCHANGED <<player, exc>>
                 [] symbol = "ENTER" /\ sel = "pause_exit" ->
                      \* UnfinishedRun(...) is called with six of its seven
                      \* arguments: hard is missing.
                      /\ exc' = "TypeError"
                      /\ UNCHANGED <<game, player>>
                 [] symbol = "ENTER" /\ sel = "pause_exit_without_saving" ->
                      /\ game' = [game EXCEPT !.unfinished_run = NoRun,
                                              !.paused = FALSE,
                                              !.pause_selected_item = "pause_continue",
                                              !.view = "menu"]
                      /\ UNCHANGED <<player, exc>>
                 [] OTHER ->
                      /\ game' = [game EXCEPT !.paused = paused,
                                              !.pause_selected_item = sel]
                      /\ UNCHANGED <<player, exc>>
          ELSE /\ game' = [game EXCEPT !.paused = paused,
                                       !.pause_selected_item = sel]
               /\ player' = IF symbol = "use_item"
                            THEN [player EXCEPT !.stored_item = "none"]
                            ELSE player
               /\ UNCHANGED exc

Symbols == {"ESCAPE", "UP", "DOWN", "ENTER", "use_item"}

InitSave ==
    /\ game \in {[view |-> "menu", current_map |-> "none", hard |-> FALSE,
                  paused |-> FALSE, pause_selected_item |-> "pause_continue",
                  unfinished_run |-> run] : run \in {NoRun} \cup SavedRuns}
    /\ player = NoPlayerObject
    /\ exc = "none"
    /\ level = NoLevel
    /\ ret = <<>>
    /\ calls = 0
    /\ successes = 0
    /\ obs = NoObs
    /\ hostiles = <<>>
    /\ tasks = NoTasks

NextSave ==
    \/ /\ \/ \E item \in {"start_game", "resume_game"} : MenuView_on_key_press(item)
          \/ GameView_show
          \/ \E type \in {"ResurrectionCoin"} \cup ItemPool : GameView_collect(type)
          \/ \E symbol \in Symbols : GameView_on_key_press(symbol)
       /\ UNCHANGED <<level, ret, calls, successes, obs, hostiles, tasks>>

SpecSave == InitSave /\ [][NextSave]_vars

(***************************************************************************)
(* C20.  Save-and-exit then resume is a round trip: the pause menu's       *)
(* save-and-exit entry stores an UnfinishedRun with the current map, the   *)
(* armor, gun and ammo levels, the stored item, res_coins and hard, and a  *)
(* GameView.setup that finds a stored run ends with a player and a view    *)
(* holding exactly the values of that run.                                 *)
(***************************************************************************)
C20_SaveResumeRoundTrip ==
    [][/\ (/\ GameView_on_key_press("ENTER")
           /\ game.paused
           /\ game.pause_selected_item = "pause_exit")
          => /\ exc' = "none"
             /\ game'.unfinished_run =
                   UnfinishedRun(game.current_map, player.armor, player.gun,
                                 player.ammo, player.stored_item,
                                 player.res_coins, game.hard)
       /\ (GameView_show /\ game.unfinished_run # NoRun)
          => LET run == game.unfinished_run IN
             /\ exc' = "none"
             /\ game'.current_map = run.map
             /\ game'.hard = run.hard
             /\ player' = [armor |-> run.armor, gun |-> run.gun, ammo |-> run.ammo,
                           stored_item |-> run.stored_item,
                           res_coins |-> run.res_coins]
      ]_vars

(***************************************************************************)
(* SpecHit: the projectile loop of GameView.on_update over hostiles of a   *)
(* Hostile subclass whose HP is 1..MaxHP (Hostile.HP is an int the         *)
(* subclass sets; Zombie, the one subclass MOB_NAME_TO_MOB lists, has 1).  *)
(* The room is started, its level has no wave left, one hostile stands in  *)
(* the scene.                                                              *)
(***************************************************************************)
MaxHP == 2

HitEnv == [drops |-> FALSE, walls |-> FALSE, bullets |-> 1, hostiles |-> 1,
            timing |-> FALSE, touch |-> FALSE]

InitHit ==
    /\ level = Level_init([mobs_probabilities |-> {"zombie"}, waves |-> <<>>,
                           special_waves |-> SpecialWaves])
    /\ ret = <<>>
    /\ exc = "none"
    /\ calls = 0
    /\ successes = 0
    /\ \E hp \in 1..MaxHP, hard \in BOOLEAN :
         game = [GameView_setup(hard) EXCEPT
                   !.started = TRUE,
                   !.hostiles = (1 :> [hp |-> hp, fresh |-> FALSE])]
    /\ obs = NoObs
    /\ NoPath

NextHit ==
    \/ GameView_on_update(HitEnv)
    \/ show_player
    \/ allow_player_movement

SpecHit == InitHit /\ [][NextHit]_vars

\* The hostiles projectile b of the scene has recorded.
HostilesHit(g, b) ==
    IF b \in 1..Len(g.friendly_projectiles)
    THEN {g.friendly_projectiles[b].hostiles_hit[i] :
            i \in 1..Len(g.friendly_projectiles[b].hostiles_hit)}
    ELSE {}

MaxY == 4          \* MAP_SIZE of the model
WallSize == 2      \* height of a wall sprite
BulletHalf == 2    \* half the height of a projectile sprite

Wall(bottom) == [bottom |-> bottom, top |-> bottom + WallSize]
Projectile(center_y) ==
    [center_y |-> center_y, bottom |-> center_y - BulletHalf,
     top |-> center_y + BulletHalf, in_scene |-> TRUE]

\* check_for_collision_with_list(projectile, walls): the walls whose
\* extent the projectile's extent meets.
check_for_collision_with_list(p, walls) ==
    {w \in walls : p.top > w.bottom /\ p.bottom < w.top}

\* The test of views.py 816 on one wall; AboveLowerEdge is a faulty
\* variant with the comparison turned round.
AboveLowerEdge(p, wall) == p.center_y > wall.bottom
BelowLowerEdge(p, wall) == p.center_y < wall.bottom

\* views.py 805-817 for projectile p: [projectile, met], met the collision
\* list ({} when the projectile is out of the map).
scan_walls(p, walls) ==
    IF p.top < 0 \/ p.bottom > MaxY
    THEN [projectile |-> [p EXCEPT !.in_scene = FALSE], met |-> {}]
    ELSE LET met == check_for_collision_with_list(p, walls) IN
         [projectile |-> [p EXCEPT !.in_scene =
                              ~(\E wall \in met : ~BelowLowerEdge(p, wall))],
          met |-> met]

Velocities == {-1, 0, 1}

\* One tick for the projectile of the scene: it moves by its velocity
\* (scene.on_update, views.py 794), then the loop looks at it.
GameView_scan_walls ==
    /\ exc = "none"
    /\ game.view = "walls"
    /\ game.projectile.in_scene
    /\ LET p == Projectile(game.projectile.center_y + game.change_y)
           r == scan_walls(p, game.walls)
       IN /\ game' = [game EXCEPT !.projectile = r.projectile]
          /\ obs' = [tick |-> "scan", met |-> r.met]
    /\ UNCHANGED <<level, ret, exc, calls, successes>>
    /\ UNCHANGED pathVars

\* Player.shoot hands a new bullet to the scene (views.py 796-798).
GameView_shoot ==
    /\ exc = "none"
    /\ game.view = "walls"
    /\ ~game.projectile.in_scene
    /\ \E y \in 0..MaxY, v \in Velocities :
         game' = [game EXCEPT !.projectile = Projectile(y), !.change_y = v]
    /\ obs' = NoObs
    /\ UNCHANGED <<level, ret, exc, calls, successes>>
    /\ UNCHANGED pathVars

InitWall ==
    /\ \E bottoms \in SUBSET (0..MaxY), y \in 0..MaxY, v \in Velocities :
         /\ Cardinality(bottoms) \in 1..2
         /\ game = [view |-> "walls",
                    walls |-> {Wall(b) : b \in bottoms},
                    projectile |-> Projectile(y),
                    change_y |-> v]
    /\ obs = NoObs
    /\ level = NoLevel
    /\ ret = <<>>
    /\ exc = "none"
    /\ calls = 0
    /\ successes = 0
    /\ NoPath

NextWall ==
    \/ GameView_scan_walls
    \/ GameView_shoot

SpecWall == InitWall /\ [][NextWall]_vars

(***************************************************************************)
(* C22 as stated.  A projectile that overlaps walls survives the scan when *)
(* its center_y is above the lower edge of the walls it overlaps, and is   *)
(* removed when it is not above it.                                        *)
(***************************************************************************)
C22_SurvivesAboveLowerEdge ==
    [][(GameView_scan_walls /\ obs'.met # {}) =>
          LET p == game'.projectile IN
          /\ (\A wall \in obs'.met : p.center_y > wall.bottom) => p.in_scene
          /\ (\A wall \in obs'.met : ~(p.center_y > wall.bottom)) => ~p.in_scene
      ]_vars

(***************************************************************************)
(* C22 as amended.  A projectile that overlaps walls survives the scan     *)
(* exactly when its center_y is below the lower edge (wall.bottom) of      *)
(* every wall it overlaps; with its center_y at or above the lower edge of *)
(* one of them it is removed.                                              *)
(***************************************************************************)
C22_SurvivesBelowLowerEdge ==
    [][(GameView_scan_walls /\ obs'.met # {}) =>
          LET p == game'.projectile IN
          p.in_scene <=> \A wall \in obs'.met : p.center_y < wall.bottom
      ]_vars

\* A projectile has survived a scan in which it overlapped a wall, and
\* the walls of the scene would remove it one step higher.
C22_Witness ==
    /\ game.view = "walls"
    /\ obs.tick = "scan"
    /\ obs.met # {}
    /\ game.projectile.in_scene
    /\ ~scan_walls(Projectile(game.projectile.center_y + 1), game.walls).projectile.in_scene

\* The requests a step adds for hostile h.
Submitted(h) ==
    {i \in DOMAIN tasks'.reqs \ DOMAIN tasks.reqs : tasks'.reqs[i].owner = h}

\* The route hostile h has left when its tick reaches the attack: what
\* the result it collects in this tick leaves, else what it had.
QueueAtAttack(h) ==
    LET hs == hostiles[h]
        handle == hs.pending_path_queue
    IN IF hs.path_pending /\ ready(tasks, handle)
       THEN process_path(hs, tasks.reqs[handle].result).hostile.path_queue
       ELSE hs.path_queue

(***************************************************************************)
(* C23.  A hostile submits a path request only in a tick in which no       *)
(* request of its own is pending any more (it had none, or the tick has    *)
(* just collected it) and in which either it has no route left or the      *)
(* player moves.                                                           *)
(***************************************************************************)
C23_SubmitOnlyWhenNeeded ==
    [][\A h \in DOMAIN hostiles :
          (Hostile_on_update(h) /\ Submitted(h) # {}) =>
              /\ \/ ~hostiles[h].path_pending
                 \/ ready(tasks, hostiles[h].pending_path_queue)
              /\ Cardinality(Submitted(h)) = 1
              /\ \/ QueueAtAttack(h) = <<>>
                 \/ player.moving
      ]_vars

\* A hostile that still has a route has just submitted a request, because
\* the player moves.
C23_Witness ==
    \E h \in DOMAIN hostiles :
        /\ hostiles[h].in_scene
        /\ hostiles[h].path_pending
        /\ hostiles[h].attack_age = 0
        /\ hostiles[h].path_queue # <<>>
        /\ player.moving
        /\ tasks.reqs[hostiles[h].pending_path_queue].status = "queued"

(***************************************************************************)
(* SpecCooldown: one Zombie, the pool and the player, with ticks of one,    *)
(* two, three tenths of a second and of the cooldown.  obs keeps the time    *)
(* since the zombie's last submission (request_age) and the time between   *)
(* its last two submissions (gap), both in tenths and cut off at GapCap,   *)
(* and what the last tick collected (install): nothing, no route, or a    *)
(* route, mid-step or not.                                                 *)
(***************************************************************************)
GapCap == AttackCooldown + 1
CooldownTicks == {1, 2, 3, AttackCooldown}

\* Hostile.on_update of the zombie, dt tenths after its last tick; arrive
\* as in Hostile_tick.
Zombie_tick(dt, arrive) ==
    /\ exc = "none"
    /\   LET r == Hostile_tick(1, dt, arrive)
             submits == \E i \in DOMAIN r.tasks.reqs : i \notin DOMAIN tasks.reqs
             since == Min(obs.request_age + dt, GapCap)
             hs == hostiles[1]
             install ==
                 IF hs.path_pending /\ ready(tasks, hs.pending_path_queue)
                 THEN IF tasks.reqs[hs.pending_path_queue].result.kind # "route"
                      THEN "no_route"
                      ELSE IF hs.next_point # NoPoint THEN "mid_step" ELSE "idle"
                 ELSE "none"
         IN
         /\ Cardinality(DOMAIN r.tasks.reqs) <= MaxRequests
         /\ hostiles' = [hostiles EXCEPT ![1] = r.hostile]
         /\ tasks' = Referred(r.tasks, hostiles')
         /\ exc' = r.exc
         /\ obs' = IF submits
                   THEN [tick |-> "zombie", request_age |-> 0,
                         requests |-> Min(obs.requests + 1, 2), gap |-> since,
                         install |-> install]
                   ELSE [obs EXCEPT !.request_age = since, !.install = install]
    /\ UNCHANGED <<level, ret, calls, successes, player, game>>

Zombie_on_update ==
    \E dt \in CooldownTicks, arrive \in BOOLEAN : Zombie_tick(dt, arrive)

InitCooldown ==
    /\ level = NoLevel
    /\ ret = <<>>
    /\ exc = "none"
    /\ calls = 0
    /\ successes = 0
    /\ game = NoGame
    /\ obs = [tick |-> "zombie", request_age |-> GapCap, requests |-> 0,
              gap |-> GapCap, install |-> "none"]
    /\ hostiles = <<Hostile_init(1)>>
    /\ tasks = NoTasks
    /\ player \in [center : 1..(MaxTile + 1), moving : BOOLEAN]

NextCooldown ==
    \/ Zombie_on_update
    \/ worker_start
    \/ worker_finish
    \/ player_moves
    \/ player_stops

SpecCooldown == InitCooldown /\ [][NextCooldown]_vars

(***************************************************************************)
(* C24.  Two consecutive path requests of one Zombie are at least its      *)
(* attack_cooldown (0.6 s) apart, whatever the tick lengths and whenever   *)
(* the results arrive.                                                     *)
(***************************************************************************)
C24_RequestsCooldownApart ==
    obs.requests >= 2 => obs.gap >= AttackCooldown

\* The zombie has just submitted a request exactly one cooldown after the
\* one before.
C24_Witness ==
    /\ obs.requests >= 2
    /\ obs.gap = AttackCooldown
    /\ obs.request_age = 0
    /\ hostiles[1].path_pending

\* The waypoints hostile record hs has before it, in the order it will
\* walk them: next_point, then path_queue from its right end.
Upcoming(hs) ==
    (IF hs.next_point # NoPoint THEN <<hs.next_point>> ELSE <<>>)
    \o Reverse(hs.path_queue)

(***************************************************************************)
(* C25.  A tick that collects a ready non-empty route p0..pk replaces the  *)
(* whole path_queue by it.  A hostile that was mid-step drops p0: it       *)
(* either still walks to its old next_point with p1..pk queued, or has     *)
(* reached it in this tick and has p1..pk before it.  A hostile that was   *)
(* not mid-step has p0 as next_point and p1..pk queued.  A tick that       *)
(* collects nothing leaves the waypoints in order: it takes none or the    *)
(* first.                                                                  *)
(***************************************************************************)
C25_RouteInstalledInOrder ==
    [][Zombie_on_update =>
          LET hs == hostiles[1]
              after == hostiles'[1]
              handle == hs.pending_path_queue
              collects == hs.path_pending /\ ready(tasks, handle)
              route == IF collects THEN tasks.reqs[handle].result.route ELSE <<>>
          IN
          IF collects /\ tasks.reqs[handle].result.kind = "route" /\ route # <<>>
          THEN /\ exc' = "none"
               /\ IF hs.next_point # NoPoint
                  THEN \/ /\ after.next_point = hs.next_point
                          /\ after.center = hs.center
                          /\ Reverse(after.path_queue) = Tail(route)
                       \/ /\ after.center = hs.next_point
                          /\ Upcoming(after) = Tail(route)
                  ELSE /\ after.next_point = route[1]
                       /\ Upcoming(after) = route
          ELSE \/ collects
               \/ Upcoming(after) = Upcoming(hs)
               \/ /\ Upcoming(hs) # <<>>
                  /\ Upcoming(after) = Tail(Upcoming(hs))
      ]_vars

\* The zombie was mid-step when its last tick installed a route of three
\* waypoints; the second and the third are before it.
C25_Witness ==
    /\ exc = "none"
    /\ obs.install = "mid_step"
    /\ ~hostiles[1].path_pending
    /\ Upcoming(hostiles[1]) = <<2, 3>>

(***************************************************************************)
(* SpecWalk: the walk of one hostile along its route with positions and    *)
(* velocities (model.py 400-403, 421-444).  Positions are points of a      *)
(* square of side MaxPos, velocities are in points per unit of time, a     *)
(* tick lasts one or two units.  hostiles[1] is the sprite: center,        *)
(* change, next_point, path_queue; obs keeps the delta_time of the last    *)
(* tick.                                                                   *)
(***************************************************************************)
MaxPos == 3
WalkSpeed == 2
MaxRoute == 2

Points == [x : 0..MaxPos, y : 0..MaxPos]
NoWaypoint == [x |-> -1, y |-> -1]
WalkTicks == {1, 2}

Sign(n) == IF n > 0 THEN 1 ELSE IF n < 0 THEN -1 ELSE 0

\* The test of model.py 424-426 and 430-432 on one axis; ArrivedStrict is
\* a faulty variant with < for <=.
ArrivedStrict(remaining, step) == remaining < step
Arrived(remaining, step) == remaining <= step

\* calc_change_x_y(speed(self.speed), calc_angle(center, next_point)) on
\* one axis: a velocity toward the waypoint, none on an axis on which the
\* sprite stands at the waypoint's coordinate.  For a sprite that stands
\* on the waypoint the angle is whatever calc_angle makes of it.
AxisVelocities(from, to, other_from, other_to) ==
    IF from = to /\ other_from = other_to THEN -WalkSpeed..WalkSpeed
    ELSE {Sign(to - from) * s : s \in 1..WalkSpeed}

\* Hostile.on_update for the walk, dt units after the last tick: the
\* sprite moves by its velocity, then model.py 421-444.  The set of
\* records the tick may leave.
walk_tick(hs, dt) ==
    LET \* 400-403: the updater moves the sprite
        x1 == hs.center.x + hs.change.x * dt
        y1 == hs.center.y + hs.change.y * dt
        walking == hs.next_point # NoWaypoint
        \* 421-437
        at_point_x == walking /\ Arrived(Abs(x1 - hs.next_point.x), Abs(hs.change.x * dt))
        at_point_y == walking /\ Arrived(Abs(y1 - hs.next_point.y), Abs(hs.change.y * dt))
        h1 == [hs EXCEPT
                 !.center = [x |-> IF at_point_x THEN hs.next_point.x ELSE x1,
                             y |-> IF at_point_y THEN hs.next_point.y ELSE y1],
                 !.change = [x |-> IF at_point_x THEN 0 ELSE hs.change.x,
                             y |-> IF at_point_y THEN 0 ELSE hs.change.y],
                 !.next_point = IF at_point_x /\ at_point_y THEN NoWaypoint ELSE @]
    IN \* 439-444
       IF h1.next_point = NoWaypoint /\ h1.path_queue # <<>>
       THEN LET np == h1.path_queue[Len(h1.path_queue)] IN
            {[h1 EXCEPT !.next_point = np,
                        !.path_queue = SubSeq(@, 1, Len(@) - 1),
                        !.change = [x |-> vx, y |-> vy]]
             : vx \in AxisVelocities(h1.center.x, np.x, h1.center.y, np.y),
               vy \in AxisVelocities(h1.center.y, np.y, h1.center.x, np.x)}
       ELSE {h1}

Hostile_walk ==
    /\ exc = "none"
    /\ \E dt \in WalkTicks :
         /\ \E after \in walk_tick(hostiles[1], dt) : hostiles' = <<after>>
         /\ obs' = [tick |-> "walk", dt |-> dt]
    /\ UNCHANGED <<level, ret, exc, calls, successes, game, tasks, player>>

\* _process_path installs a route (model.py 452-458) on a sprite that is
\* not mid-step.
Hostile_install ==
    /\ exc = "none"
    /\ hostiles[1].next_point = NoWaypoint
    /\ hostiles[1].path_queue = <<>>
    /\ \E route \in UNION {[1..n -> Points] : n \in 1..MaxRoute} :
         hostiles' = <<[hostiles[1] EXCEPT !.path_queue = Reverse(route)]>>
    /\ obs' = NoObs
    /\ UNCHANGED <<level, ret, exc, calls, successes, game, tasks, player>>

InitWalk ==
    /\ level = NoLevel
    /\ ret = <<>>
    /\ exc = "none"
    /\ calls = 0
    /\ successes = 0
    /\ game = NoGame
    /\ obs = NoObs
    /\ \E c \in Points :
         hostiles = <<[center |-> c, change |-> [x |-> 0, y |-> 0],
                       next_point |-> NoWaypoint, path_queue |-> <<>>]>>
    /\ tasks = NoTasks
    /\ player = NoPlayer

NextWalk ==
    \/ Hostile_walk
    \/ Hostile_install

SpecWalk == InitWalk /\ [][NextWalk]_vars

\* What C26 says of one axis of a tick of dt units: c and v are the
\* coordinate and the velocity before it, w the waypoint's coordinate, c2
\* and v2 the coordinate and the velocity after it, same whether the
\* sprite still walks to the same waypoint.
AxisWalksRight(c, v, w, dt, c2, v2, same) ==
    LET moved == c + v * dt
        reached == Abs(moved - w) <= Abs(v * dt)
    IN /\ reached => c2 = w
       /\ (reached /\ same) => v2 = 0
       /\ ~reached => (c2 = moved /\ v2 = v)
       /\ (w - c) * (w - c2) >= 0
       /\ same => v2 \in {v, 0}

(***************************************************************************)
(* C26.  For every sequence of tick lengths a hostile that walks to        *)
(* next_point is put exactly on the waypoint's coordinate on an axis, its  *)
(* velocity on that axis zeroed, in the first tick in which the distance   *)
(* left on that axis is at most |velocity * delta_time|; it never ends a   *)
(* tick past the waypoint on an axis, never turns round toward the same    *)
(* waypoint, and leaves next_point only when both axes are exactly on the  *)
(* waypoint.                                                               *)
(***************************************************************************)
C26_SnapsOntoWaypoint ==
    [][(Hostile_walk /\ hostiles[1].next_point # NoWaypoint) =>
          LET hs == hostiles[1]
              after == hostiles'[1]
              np == hs.next_point
              same == /\ after.next_point = np
                      /\ after.path_queue = hs.path_queue
          IN /\ AxisWalksRight(hs.center.x, hs.change.x, np.x, obs'.dt,
                               after.center.x, after.change.x, same)
             /\ AxisWalksRight(hs.center.y, hs.change.y, np.y, obs'.dt,
                               after.center.y, after.change.y, same)
             /\ ~same => after.center = np
             /\ after.center = np => ~same
      ]_vars

\* The sprite stands on the waypoint's x, its x velocity zeroed, and still
\* walks to the waypoint on the y axis.
C26_Witness ==
    /\ obs.tick = "walk"
    /\ hostiles[1].next_point # NoWaypoint
    /\ hostiles[1].center.x = hostiles[1].next_point.x
    /\ hostiles[1].change.x = 0
    /\ hostiles[1].change.y # 0
    /\ hostiles[1].center.y # hostiles[1].next_point.y
    /\ hostiles[1].center.y \in 0..MaxPos

(***************************************************************************)
(* SpecCooldownFair: SpecCooldown in which ticks go on and the sprite      *)
(* reaches the waypoint it walks to: again and again a tick comes in       *)
(* which it is within one step of next_point.                              *)
(***************************************************************************)
SpecCooldownFair ==
    SpecCooldown /\ WF_vars(\E dt \in CooldownTicks : Zombie_tick(dt, TRUE))

(***************************************************************************)
(* C27.  A hostile that has collected a no-route result retries: as ticks  *)
(* go on it submits a new path request.                                    *)
(***************************************************************************)
C27_RetriesAfterNoRoute ==
    (obs.install = "no_route") ~> hostiles[1].path_pending


(***************************************************************************)
(* SpecTimer: a GameView after setup whose level has regular waves of a    *)
(* short or a long duration; the window calls on_update, the clock runs    *)
(* the scheduled callbacks and the player presses ESCAPE to pause and to   *)
(* resume.                                                                 *)
(***************************************************************************)
TimerLevelFiles ==
    {f \in LevelFiles :
        \A i \in 1..Len(f.waves) :
            f.waves[i] \in {<<IntSel(1), 1>>, <<IntSel(1), MaxWaveDuration>>}}

TimerEnv == [drops |-> FALSE, walls |-> FALSE, bullets |-> 1,
             hostiles |-> MaxHostiles,
            timing |-> TRUE, touch |-> FALSE]

\* GameView.on_key_press(key.ESCAPE) (views.py 1132-1133).
GameView_escape ==
    /\ game.view = "game"
    /\ exc = "none"
    /\ game' = [game EXCEPT !.paused = ~@]
    /\ UNCHANGED <<level, ret, exc, calls, successes, obs>>
    /\ UNCHANGED pathVars

InitTimer ==
    /\ level \in {Level_init(f) : f \in TimerLevelFiles}
    /\ ret = <<>>
    /\ exc = "none"
    /\ calls = 0
    /\ successes = 0
    /\ \E hard \in BOOLEAN : game = GameView_setup(hard)
    /\ obs = NoObs
    /\ NoPath

NextTimer ==
    \/ GameView_on_update(TimerEnv)
    \/ GameView_escape
    \/ show_player
    \/ allow_player_movement

SpecTimer == InitTimer /\ [][NextTimer]_vars

\* C28: a paused tick spawns nothing; an unpaused tick of a started room
\* spawns the next wave exactly when the time since the last wave started
\* has reached that wave's duration and a wave is left, whatever hostiles
\* are alive; a tick of a room not started spawns the wave exactly when
\* the start delay has elapsed and a wave is left.
C28_WaveOnTimer ==
    [][GameView_on_update(TimerEnv) =>
          LET since == Older(game.wave_age, obs'.dt, MaxWaveDuration)
              delay == Older(game.delay_age, obs'.dt, ResurrectionDelay)
              left == level.current_wave < Len(level.waves)
              spawned == /\ obs'.tick # "paused"
                         /\ obs'.branch # "none"
                         /\ obs'.raised = "none"
          IN /\ game.paused =>
                   /\ level' = level
                   /\ DOMAIN game'.hostiles = DOMAIN game.hostiles
                   /\ game'.started = game.started
             /\ (~game.paused /\ game.started) =>
                   (spawned <=> (since >= game.last_wave_duration /\ left))
             /\ (~game.paused /\ ~game.started) =>
                   (spawned <=> (delay >= game.delay_before_start /\ left))
             /\ (spawned /\ obs'.tick = "ran" /\ obs'.kill = "none") =>
                   /\ level'.current_wave = level.current_wave + 1
                   /\ \E h \in DOMAIN game'.hostiles : game'.hostiles[h].fresh
    ]_vars

\* The timer has spawned the second wave after a first wave of the long
\* duration, while a hostile of the first wave is alive.
C28_Witness ==
    /\ obs # NoObs
    /\ obs.tick = "ran"
    /\ obs.branch = "timer"
    /\ obs.raised = "none"
    /\ obs.kill = "none"
    /\ level.current_wave = 2
    /\ level.waves[1][2] = MaxWaveDuration
    /\ \E h \in DOMAIN game.hostiles : ~game.hostiles[h].fresh
    /\ \E h \in DOMAIN game.hostiles : game.hostiles[h].fresh


worker_raises ==
    /\ exc = "none"
    /\ \E i \in DOMAIN tasks.reqs :
         /\ tasks.reqs[i].status = "running"
         /\ tasks' = Referred([tasks EXCEPT !.reqs[i].status = "done",
                                            !.reqs[i].result = RaisedResult],
                              hostiles)
    /\ UNCHANGED <<level, ret, exc, calls, successes, hostiles, player>>
    /\ UNCHANGED gameVars

NextRaise ==
    \/ \E h \in 1..NumHostiles : Hostile_on_update(h)
    \/ worker_start
    \/ worker_finish
    \/ worker_raises
    \/ player_moves
    \/ player_stops

SpecRaise == InitPath /\ [][NextRaise]_vars

\* C30: a tick of a hostile that collects the result of a call that raised
\* in the worker does not raise.
C30_FailedRequestDoesNotHalt ==
    [][\A h \in 1..NumHostiles :
          (/\ hostiles[h].path_pending
           /\ ready(tasks, hostiles[h].pending_path_queue)
           /\ tasks.reqs[hostiles[h].pending_path_queue].result = RaisedResult
           /\ Hostile_on_update(h))
          => exc' = "none"
    ]_vars


(***************************************************************************)
(* SpecSnapshot: one hostile, a player and the walls of a corridor of two  *)
(* tiles; the hostile submits path requests, a worker process of the pool  *)
(* serves them step by step while the hostile and the player walk on.      *)
(* `game` holds the walls of the live scene, `tasks` the request with the  *)
(* worker's own sprites, `obs` the live values at the submission.          *)
(***************************************************************************)
TileSize == 4
MapSize == 8
Half == TileSize \div 2

MapPoints == 0..MapSize
\* The points strictly inside a tile, where the player stands.
InnerPoints == {q \in MapPoints : q % TileSize # 0}

\* get_tile_center_of_point for a point strictly inside a tile of the map.
get_tile_center_of_point(point) == (point \div TileSize) * TileSize + Half

\* The tuples enqueue_pathfinder builds of the hostile and of the walls
\* (model.py 35-51): the values of the moment.
SpriteTuple(center) == [center |-> center]
WallTuples(walls) == [i \in 1..Len(walls) |-> [center |-> walls[i]]]

NoArgs == [start_point |-> -1, end_point |-> -1, barriers |-> <<>>]
NoRequest == [status |-> "none", sprite |-> SpriteTuple(-1), target_point |-> -1,
              walls |-> <<>>, own_sprite |-> -1, own_walls |-> <<>>,
              args |-> NoArgs, result |-> NoneResult]

\* Hostile._walk_to_point with enqueue_pathfinder (model.py 446-450,
\* 27-54): the request holds tuples of values.
Snapshot_submit ==
    /\ ~hostiles[1].path_pending
    /\ tasks.status = "none"
    /\ hostiles' = [hostiles EXCEPT ![1].path_pending = TRUE]
    /\ tasks' = [NoRequest EXCEPT !.status = "queued",
                                  !.sprite = SpriteTuple(hostiles[1].center),
                                  !.target_point = player.center,
                                  !.walls = WallTuples(game.walls)]
    /\ obs' = [center |-> hostiles[1].center, target |-> player.center,
               walls |-> game.walls, collected |-> NoneResult]
    /\ UNCHANGED <<level, ret, exc, calls, successes, game, player>>

\* What the worker builds its Sprite from (model.py 75-81): the tuple of
\* the request.  OwnSpriteLive is a faulty variant, a worker that reads
\* the hostile of the live scene.
OwnSpriteLive(req, live) == live.center
OwnSprite(req, live) == req.sprite.center

\* _calc_path_pkl builds a Sprite and a SpriteList of its own from the
\* tuples (model.py 75-85); calc_path moves these walls by half a tile
\* (model.py 96-98).
Snapshot_worker_shift ==
    /\ tasks.status = "queued"
    /\ tasks' = [tasks EXCEPT
                   !.status = "shifted",
                   !.own_sprite = OwnSprite(tasks, hostiles[1]),
                   !.own_walls = [i \in 1..Len(tasks.walls) |->
                                     tasks.walls[i].center - Half]]
    /\ UNCHANGED <<level, ret, exc, calls, successes, game, obs, hostiles, player>>

\* calc_path hands the search its arguments (model.py 100-113); the search
\* is the library's: it finds nothing (None or an empty list) or a route.
Snapshot_worker_search ==
    /\ tasks.status = "shifted"
    /\ LET a == [start_point |-> tasks.own_sprite,
                 end_point |-> get_tile_center_of_point(tasks.target_point),
                 barriers |-> tasks.own_walls]
       IN \E path \in {NoneResult, EmptyResult,
                       [kind |-> "route",
                        route |-> <<a.start_point, a.end_point>>]} :
            tasks' = [tasks EXCEPT !.status = "searched", !.args = a,
                                   !.result = path]
    /\ UNCHANGED <<level, ret, exc, calls, successes, game, obs, hostiles, player>>

\* calc_path moves its walls back and returns the route moved by half a
\* tile (model.py 115-123); the handle becomes ready.
Snapshot_worker_return ==
    /\ tasks.status = "searched"
    /\ tasks' = [tasks EXCEPT
                   !.status = "done",
                   !.own_walls = [i \in 1..Len(@) |-> @[i] + Half],
                   !.result = IF @.kind = "route"
                              THEN [@ EXCEPT !.route =
                                      [i \in 1..Len(@) |-> @[i] + Half]]
                              ELSE @]
    /\ UNCHANGED <<level, ret, exc, calls, successes, game, obs, hostiles, player>>

\* Hostile.on_update collects the result (model.py 405-407).
Snapshot_collect ==
    /\ hostiles[1].path_pending
    /\ tasks.status = "done"
    /\ hostiles' = [hostiles EXCEPT ![1].path_pending = FALSE]
    /\ obs' = [obs EXCEPT !.collected = tasks.result]
    /\ tasks' = NoRequest
    /\ UNCHANGED <<level, ret, exc, calls, successes, game, player>>

\* The hostile and the player walk on in the live scene.
Snapshot_hostile_walks ==
    /\ \E c \in MapPoints :
         /\ Abs(c - hostiles[1].center) = 1
         /\ hostiles' = [hostiles EXCEPT ![1].center = c]
    /\ UNCHANGED <<level, ret, exc, calls, successes, game, obs, tasks, player>>

Snapshot_player_walks ==
    /\ \E c \in InnerPoints \ {player.center} :
         player' = [player EXCEPT !.center = c]
    /\ UNCHANGED <<level, ret, exc, calls, successes, game, obs, tasks, hostiles>>

InitSnapshot ==
    /\ level = NoLevel
    /\ ret = <<>>
    /\ exc = "none"
    /\ calls = 0
    /\ successes = 0
    /\ game \in {[walls |-> w] : w \in {<<Half>>, <<Half, TileSize + Half>>}}
    /\ obs = [center |-> -1, target |-> -1, walls |-> <<>>, collected |-> NoneResult]
    /\ hostiles = <<[center |-> 0, path_pending |-> FALSE]>>
    /\ tasks = NoRequest
    /\ player \in [center : InnerPoints, moving : {FALSE}]

NextSnapshot ==
    \/ Snapshot_submit
    \/ Snapshot_worker_shift
    \/ Snapshot_worker_search
    \/ Snapshot_worker_return
    \/ Snapshot_collect
    \/ Snapshot_hostile_walks
    \/ Snapshot_player_walks

SpecSnapshot == InitSnapshot /\ [][NextSnapshot]_vars

\* C31: no step of the worker changes a wall, the hostile or the player of
\* the live scene; the search gets the hostile's position, the target's
\* tile and the walls (moved by half a tile) as they were at the
\* submission, whatever the scene has become; the worker's walls are back
\* in place when it returns, and the hostile collects the route of those
\* arguments, moved by half a tile.
C31_WorkerSharesNothing ==
    [][/\ (tasks'.status \in {"shifted", "searched", "done"}
            /\ tasks'.status # tasks.status) =>
              /\ game' = game
              /\ hostiles' = hostiles
              /\ player' = player
       /\ game'.walls = game.walls
       /\ tasks'.status \in {"searched", "done"} =>
              /\ tasks'.args.start_point = obs'.center
              /\ tasks'.args.end_point = get_tile_center_of_point(obs'.target)
              /\ tasks'.args.barriers = [i \in 1..Len(obs'.walls) |->
                                            obs'.walls[i] - Half]
       /\ tasks'.status = "done" =>
              /\ tasks'.own_walls = obs'.walls
              /\ tasks'.result.kind = "route" =>
                    tasks'.result.route =
                       <<obs'.center + Half,
                         get_tile_center_of_point(obs'.target) + Half>>
       /\ Snapshot_collect => obs'.collected = tasks.result
    ]_vars

\* The worker has searched for a hostile and a player that have both left
\* the places they had at the submission, while its own walls are moved.
C31_Witness ==
    /\ tasks.status = "searched"
    /\ tasks.result.kind = "route"
    /\ tasks.args.start_point = obs.center
    /\ hostiles[1].center # obs.center
    /\ player.center # obs.target
    /\ get_tile_center_of_point(player.center) # tasks.args.end_point
    /\ tasks.own_walls # game.walls
    /\ Len(game.walls) = 2


\* C32: a projectile is destroyed by the hit that is its (penetration + 1)th,
\* and by no earlier one: it damages penetration + 1 hostiles.
C32_DamagesPenetrationPlusOne ==
    obs.tick = "ran" =>
        \A k \in 1..Len(obs.hits) :
            obs.hits[k].bullet_removed <=>
                (obs.hits[k].nhits = obs.hits[k].penetration + 1)


(***************************************************************************)
(* SpecLoot: a GameView over a level of one wave of one zombie, in hard    *)
(* mode or not, in which the loot code may drop anything.                  *)
(***************************************************************************)
LootEnv == [drops |-> TRUE, walls |-> FALSE, bullets |-> 1, hostiles |-> 1,
            timing |-> FALSE, touch |-> FALSE]

InitLoot ==
    /\ level = Level_init([mobs_probabilities |-> {"zombie"},
                           waves |-> <<<<IntSel(1), MaxWaveDuration>>>>,
                           special_waves |-> SpecialWaves])
    /\ ret = <<>>
    /\ exc = "none"
    /\ calls = 0
    /\ successes = 0
    /\ \E hard \in BOOLEAN : game = GameView_setup(hard)
    /\ obs = NoObs
    /\ NoPath

NextLoot ==
    \/ GameView_on_update(LootEnv)
    \/ show_player
    \/ allow_player_movement

SpecLoot == InitLoot /\ [][NextLoot]_vars

\* C33: every pickup on the ground is an item of ITEMS or a
\* ResurrectionCoin; in hard mode no hostile's death places a coin and no
\* coin lies on the ground; a drop is placed only for a hostile that died.
C33_NoCoinDropInHardMode ==
    /\ \A i \in 1..Len(game.items) :
          /\ game.items[i].type \in {ITEMS[j] : j \in 1..Len(ITEMS)}
                                     \cup {"ResurrectionCoin"}
          /\ game.hard => game.items[i].type # "ResurrectionCoin"
    /\ obs.tick = "ran" =>
          \A k \in 1..Len(obs.hits) :
              /\ obs.hits[k].loot \in {ITEMS[j] : j \in 1..Len(ITEMS)}
                                       \cup {"ResurrectionCoin", "none"}
              /\ obs.hits[k].loot # "none" => obs.hits[k].hostile_removed
              /\ obs.hits[k].loot = "ResurrectionCoin" => ~game.hard

\* In hard mode, the death of a hostile has placed an item.
C33_Witness ==
    /\ game.hard
    /\ obs.tick = "ran"
    /\ \E k \in 1..Len(obs.hits) :
          /\ obs.hits[k].hostile_removed
          /\ obs.hits[k].loot \notin {"none", "ResurrectionCoin"}
    /\ game.items # <<>>


(***************************************************************************)
(* SpecSpawn: GameView.spawn_mob places mobs around the map, for every     *)
(* outcome of its random draws; hostiles leave the scene again.  `obs` is  *)
(* the mob placed last.                                                    *)
(***************************************************************************)
MaxSpawned == 2

\* enums.Entrance.
Entrance(n) == <<"TOP", "RIGHT", "BOTTOM", "LEFT">>[n + 1]

\* The lanes of views.py 933-941.
Lanes == {247, 285, 323, 361}

\* The coordinate across the chosen edge (views.py 934, 937, 939, 942);
\* EdgeCoordinateOnEdge is a faulty variant that places the mob on the
\* edge of the map.
EdgeCoordinateOnEdge(entrance) ==
    IF entrance \in {"TOP", "RIGHT"} THEN MapSize ELSE 0
EdgeCoordinate(entrance) ==
    IF entrance \in {"TOP", "RIGHT"} THEN MapSize + TileSize ELSE -TileSize

\* The position spawn_mob gives a mob for its two draws: randint(0, 3) and
\* the choice of the lane.
spawn_mob(n, lane) ==
    LET entrance == Entrance(n) IN
    IF entrance \in {"TOP", "BOTTOM"}
    THEN [center_x |-> lane, center_y |-> EdgeCoordinate(entrance)]
    ELSE [center_x |-> EdgeCoordinate(entrance), center_y |-> lane]

GameView_spawn_mob ==
    /\ Len(hostiles) < MaxSpawned
    /\ \E n \in 0..3, lane \in Lanes :
         /\ hostiles' = Append(hostiles, spawn_mob(n, lane))
         /\ obs' = [tick |-> "spawn_mob", entrance |-> Entrance(n),
                    mob |-> spawn_mob(n, lane)]
    /\ UNCHANGED <<level, ret, exc, calls, successes, game, tasks, player>>

\* A hostile leaves the scene (views.py 832-834, 880-885).
GameView_remove_mob ==
    /\ \E i \in 1..Len(hostiles) :
         hostiles' = SubSeq(hostiles, 1, i - 1) \o SubSeq(hostiles, i + 1, Len(hostiles))
    /\ UNCHANGED <<level, ret, exc, calls, successes, game, obs, tasks, player>>

InitSpawn ==
    /\ level = NoLevel
    /\ ret = <<>>
    /\ exc = "none"
    /\ calls = 0
    /\ successes = 0
    /\ game = NoGame
    /\ obs = NoObs
    /\ hostiles = <<>>
    /\ tasks = NoTasks
    /\ player = NoPlayer

NextSpawn ==
    \/ GameView_spawn_mob
    \/ GameView_remove_mob

SpecSpawn == InitSpawn /\ [][NextSpawn]_vars

\* C34: a mob that spawn_mob has placed has its coordinate along the
\* chosen edge in {247, 285, 323, 361} and the other one at -TILE_SIZE or
\* MAP_SIZE + TILE_SIZE, a tile outside the map on the side of the
\* entrance; these are 16 positions.
C34_SpawnPositions ==
    LET outside == {-TileSize, MapSize + TileSize}
        positions ==
            {[center_x |-> l, center_y |-> o] : l \in Lanes, o \in outside}
            \cup {[center_x |-> o, center_y |-> l] : l \in Lanes, o \in outside}
    IN /\ Cardinality(positions) = 16
       /\ \A i \in 1..Len(hostiles) : hostiles[i] \in positions
       /\ obs.tick = "spawn_mob" =>
             /\ obs.mob \in positions
             /\ obs.entrance = "TOP" =>
                   obs.mob.center_x \in Lanes /\ obs.mob.center_y = MapSize + TileSize
             /\ obs.entrance = "BOTTOM" =>
                   obs.mob.center_x \in Lanes /\ obs.mob.center_y = -TileSize
             /\ obs.entrance = "LEFT" =>
                   obs.mob.center_y \in Lanes /\ obs.mob.center_x = -TileSize
             /\ obs.entrance = "RIGHT" =>
                   obs.mob.center_y \in Lanes /\ obs.mob.center_x = MapSize + TileSize

\* Two mobs are in the scene, one placed at the left and one at the top.
C34_Witness ==
    /\ Len(hostiles) = 2
    /\ obs.tick = "spawn_mob"
    /\ obs.entrance = "LEFT"
    /\ hostiles[1].center_y = MapSize + TileSize
    /\ hostiles[2].center_x = -TileSize


(***************************************************************************)
(* SpecStats: a Player with any upgrade levels up to MaxStatLevel that     *)
(* picks up and uses Pressurer and Scope items, is updated as time passes  *)
(* and shoots.  `obs` holds the bullets of the last shot.                  *)
(***************************************************************************)
MaxStatLevel == 4
BASE_DAMAGE == 1
DAMAGE_MOD == 2
EXTRA_PENETRATION == 1

StatItems == {"Pressurer", "Scope"}
StatLevels == {0, 1, MaxStatLevel}
\* The time between two updates of the player, in seconds.
StatTicks == {10}

\* find_with_class(self.active_items, cls) as a test.
Active(pl, type) ==
    \E i \in 1..Len(pl.active_items) : pl.active_items[i].type = type

\* Player.final_damage (model.py 777-786), in halves until the floor:
\* BASE_DAMAGE + BASE_DAMAGE * 0.5 * level, times DAMAGE_MOD under a
\* Pressurer, rounded down.
final_damage(pl) ==
    LET halves == 2 * BASE_DAMAGE + BASE_DAMAGE * pl.ammo
        modded == IF Active(pl, "Pressurer") THEN halves * DAMAGE_MOD ELSE halves
    IN modded \div 2

\* Player.final_penetration (model.py 798-806): int() cuts 0.5 * level
\* down.  final_penetration_unclamped is a faulty variant without max().
final_penetration_unclamped(pl) ==
    (pl.gun \div 2) + (IF Active(pl, "Scope") THEN EXTRA_PENETRATION ELSE 0)
final_penetration(pl) ==
    Max(pl.gun \div 2, 1) + (IF Active(pl, "Scope") THEN EXTRA_PENETRATION ELSE 0)

\* Player.shoot (model.py 622-775) for a player with neither Spray nor
\* ThreeSixty: nothing while the gun cools down or no direction is held,
\* else one bullet with the stats of the moment.
shoot(pl) == {<<>>, <<Bullet(final_damage(pl), final_penetration(pl))>>}

Stats_shoot ==
    /\ \E bullets \in shoot(player) :
         obs' = [tick |-> "shoot", bullets |-> bullets,
                 after |-> [op |-> player.log.op,
                            removed |-> player.log.removed # {}]]
    /\ UNCHANGED <<level, ret, exc, calls, successes, game, hostiles, tasks, player>>

Stats_use_item ==
    /\ player' = use_item(player)
    /\ UNCHANGED <<level, ret, exc, calls, successes, game, obs, hostiles, tasks>>

Stats_pickup_item ==
    /\ \E type \in StatItems : player' = pickup_item(player, NewItem(player, type))
    /\ UNCHANGED <<level, ret, exc, calls, successes, game, obs, hostiles, tasks>>

Stats_on_update ==
    /\ \E dt \in StatTicks : player' = expire_active_items(player, dt)
    /\ UNCHANGED <<level, ret, exc, calls, successes, game, obs, hostiles, tasks>>

InitStats ==
    /\ level = NoLevel
    /\ ret = <<>>
    /\ exc = "none"
    /\ calls = 0
    /\ successes = 0
    /\ game = NoGame
    /\ obs = NoObs
    /\ hostiles = <<>>
    /\ tasks = NoTasks
    /\ \E gun \in StatLevels, ammo \in StatLevels :
         player = [gun |-> gun, ammo |-> ammo] @@ Player_init

NextStats ==
    \/ Stats_shoot
    \/ Stats_use_item
    \/ Stats_pickup_item
    \/ Stats_on_update

SpecStats == InitStats /\ [][NextStats]_vars

\* The damage and the penetration of a player of these levels without
\* items.
PlainDamage(pl) == final_damage([pl EXCEPT !.active_items = <<>>])
PlainPenetration(pl) == final_penetration([pl EXCEPT !.active_items = <<>>])

\* C35 as stated: a shot carries the stats of the items active at the shot:
\* Scope adds exactly 1 to the penetration, Pressurer doubles the damage;
\* both stats are at least 1.
C35_StatsOfCurrentItems ==
    [][Stats_shoot =>
          \A i \in 1..Len(obs'.bullets) :
              LET b == obs'.bullets[i] IN
              /\ b.damage = IF Active(player, "Pressurer")
                            THEN 2 * PlainDamage(player) ELSE PlainDamage(player)
              /\ b.penetration = IF Active(player, "Scope")
                                 THEN PlainPenetration(player) + 1
                                 ELSE PlainPenetration(player)
              /\ b.damage >= 1
              /\ b.penetration >= 1
    ]_vars

\* C35, amended: the damage under a Pressurer is the doubled damage
\* rounded down, floor(2 * (1 + 0.5 * ammo level)) = ammo level + 2, which
\* is twice the damage without it for an even ammo level and one more than
\* twice for an odd one; the rest as stated.
C35_StatsOfCurrentItemsRounded ==
    [][Stats_shoot =>
          \A i \in 1..Len(obs'.bullets) :
              LET b == obs'.bullets[i]
                  plain == 1 + (player.ammo \div 2)
              IN
              /\ PlainDamage(player) = plain
              /\ b.damage = IF Active(player, "Pressurer")
                            THEN player.ammo + 2 ELSE plain
              /\ Active(player, "Pressurer") =>
                    b.damage = 2 * plain + (player.ammo % 2)
              /\ b.penetration = Max(player.gun \div 2, 1)
                                 + (IF Active(player, "Scope") THEN 1 ELSE 0)
              /\ b.remaining_penetration = b.penetration
              /\ b.damage >= 1
              /\ b.penetration >= 1
    ]_vars

\* The first shot after an item expired: the player of ammo level 1 and gun
\* level 0 shoots with a Pressurer still active and the Scope gone.
C35_Witness ==
    /\ obs.tick = "shoot"
    /\ obs.after.op = "on_update"
    /\ obs.after.removed
    /\ player.ammo = 1
    /\ player.gun = 0
    /\ Active(player, "Pressurer")
    /\ ~Active(player, "Scope")
    /\ obs.bullets # <<>>
    /\ obs.bullets[1].damage = 3
    /\ obs.bullets[1].penetration = 1


(***************************************************************************)
(* SpecCombat: the room of SpecGame, with ticks that record which          *)
(* hostiles the player overlapped.                                         *)
(***************************************************************************)
CombatEnv == [drops |-> FALSE, walls |-> FALSE, bullets |-> 1,
              hostiles |-> MaxHostiles, timing |-> FALSE, touch |-> TRUE]

NextCombat ==
    \/ GameView_on_update(CombatEnv)
    \/ show_player
    \/ allow_player_movement

SpecCombat == InitGame /\ [][NextCombat]_vars

\* C36: a hostile that a projectile has killed in a tick is out of the
\* scene when the death check of that tick runs: the player dies in a tick
\* only if it overlaps a hostile that is still in the scene after the
\* projectile loop, and a tick in which every hostile it overlaps was
\* killed leaves the player alive.
C36_CombatBeforeDeathCheck ==
    obs.tick = "ran" =>
        LET killed == {obs.hits[k].hostile :
                          k \in {j \in 1..Len(obs.hits) : obs.hits[j].hostile_removed}}
        IN /\ obs.kill # "none" =>
                 /\ obs.touch \ killed # {}
                 /\ obs.pre.hostiles \cap killed = {}
                 /\ obs.touch \cap obs.pre.hostiles # {}
           /\ obs.touch \subseteq killed => obs.kill = "none"

\* The player overlapped a hostile in the tick in which a projectile
\* killed it, and is alive.
C36_Witness ==
    /\ obs.tick = "ran"
    /\ \E k \in 1..Len(obs.hits) :
          /\ obs.hits[k].hostile_removed
          /\ obs.touch = {obs.hits[k].hostile}
    /\ obs.kill = "none"
    /\ game.view = "game"
    /\ game.can_move


(***************************************************************************)
(* SpecOverkill: the room of SpecHit with two projectiles in the scene     *)
(* and a loot code that may drop anything.                                 *)
(***************************************************************************)
OverkillEnv == [drops |-> TRUE, walls |-> FALSE, bullets |-> MaxBullets,
                hostiles |-> 1, timing |-> FALSE, touch |-> FALSE]

NextOverkill ==
    \/ GameView_on_update(OverkillEnv)
    \/ show_player
    \/ allow_player_movement

SpecOverkill == InitHit /\ [][NextOverkill]_vars

\* C37: every hostile in the scene has hp >= 1; every hit of a tick is on a
\* hostile of hp >= 1, no hit follows the hit that killed the hostile, and
\* a hostile's death places at most one pickup.
C37_DeadHostilesAreGone ==
    /\ \A h \in DOMAIN game.hostiles : game.hostiles[h].hp >= 1
    /\ obs.tick = "ran" =>
          /\ \A k \in 1..Len(obs.hits) :
                /\ obs.hits[k].hp_before >= 1
                /\ obs.hits[k].hostile_removed <=> (obs.hits[k].hp_after < 1)
                /\ obs.hits[k].hostile_removed =>
                      /\ obs.hits[k].hostile \notin DOMAIN game.hostiles
                      /\ \A j \in 1..Len(obs.hits) :
                            j # k => obs.hits[j].hostile # obs.hits[k].hostile
                                     \/ (j < k /\ ~obs.hits[j].hostile_removed)
                /\ obs.hits[k].loot # "none" => obs.hits[k].hostile_removed
          /\ Cardinality({k \in 1..Len(obs.hits) : obs.hits[k].loot # "none"})
                <= Cardinality({obs.hits[k].hostile : k \in 1..Len(obs.hits)})

\* Two projectiles overlapped the hostile in one tick: the first killed it
\* and placed a pickup, the second hit nothing and is still in the scene.
C37_Witness ==
    /\ obs.tick = "ran"
    /\ Len(obs.hits) = 1
    /\ obs.hits[1].bullet = 1
    /\ obs.hits[1].hostile_removed
    /\ obs.hits[1].loot # "none"
    /\ Len(game.items) = 1
    /\ Len(obs.overlaps) = 2
    /\ obs.overlaps[1] = obs.overlaps[2]
    /\ obs.overlaps[1].kind = "hostile"
    /\ Len(game.friendly_projectiles) >= 1
    /\ DOMAIN game.hostiles = {}


(***************************************************************************)
(* The resurrection delay, under SpecGame.                                 *)
(***************************************************************************)
\* The callback `c` is scheduled and has not run.
Pending(g, c) == \E s \in g.scheduled : s[1] = c

\* A resurrection has happened and the wave it waits for has not started.
Respawning(g) ==
    /\ g.view = "game"
    /\ ~g.started
    /\ g.delay_before_start = ResurrectionDelay

NoProjectile(g) ==
    g.friendly_projectiles = <<>> /\ g.hostile_projectiles = <<>>

\* What C38 and its amended form share: a wave is spawned after a
\* resurrection only in a tick that finds 4.0 s elapsed; the player cannot
\* shoot while can_move is false; can_move becomes true only when
\* _allow_player_movement runs, which only _show_player schedules, which
\* only kill_player schedules; and while can_move is false one of the two
\* callbacks is scheduled.
RespawnSteps ==
    /\ (Respawning(game) /\ (level'.current_wave > level.current_wave
                             \/ DOMAIN game'.hostiles # {}))
          => (game'.started /\ game'.delay_age >= ResurrectionDelay)
    /\ Respawning(game') => DOMAIN game'.hostiles = {}
    /\ ~game'.can_move => NoProjectile(game')
    /\ (~game.can_move /\ game'.can_move) => allow_player_movement
    /\ (~Pending(game, "_allow_player_movement")
        /\ Pending(game', "_allow_player_movement")) => show_player
    /\ (~Pending(game, "_show_player") /\ Pending(game', "_show_player"))
          => (obs'.tick = "ran" /\ obs'.kill = "resurrected")
    /\ (obs'.tick = "ran" /\ obs'.kill = "resurrected" /\ obs' # obs)
          => /\ Respawning(game')
             /\ game'.delay_age = 0
             /\ ~game'.can_move
             /\ ~game'.visible
             /\ <<"_show_player", 1>> \in game'.scheduled
    /\ ~game'.can_move
          => (Pending(game', "_show_player")
              \/ Pending(game', "_allow_player_movement"))

\* C38: after a resurrection no hostile or projectile exists and no wave
\* is spawned until 4.0 s have elapsed; the player cannot shoot until
\* _show_player and then _allow_player_movement have run, after which
\* can_move is true again.
C38_QuietUntilRestart ==
    [][/\ RespawnSteps
       /\ (Respawning(game') /\ game'.delay_age < ResurrectionDelay)
             => NoProjectile(game')]_vars

\* C38, amended: after a resurrection no hostile exists and no wave is
\* spawned until 4.0 s have elapsed, and no projectile exists until
\* _show_player and then _allow_player_movement have run; from then on
\* can_move is true and the player may shoot, before the 4.0 s are over.
C38_QuietUntilMovement ==
    [][/\ RespawnSteps
       /\ (Respawning(game') /\ NoProjectile(game) /\ ~NoProjectile(game'))
             => (game.can_move /\ game'.hostile_projectiles = <<>>)]_vars

\* Both callbacks have run after a resurrection and the player has shot
\* before the next wave.
C38_Witness ==
    /\ Respawning(game)
    /\ game.delay_age < ResurrectionDelay
    /\ game.scheduled = {}
    /\ game.visible
    /\ game.can_move
    /\ Len(game.friendly_projectiles) = 1
    /\ DOMAIN game.hostiles = {}


(***************************************************************************)
(* SpecPause: a room of one wave whose hostile drops a pickup, a player    *)
(* that holds items, the pause key and the use-item key.                   *)
(***************************************************************************)
PauseTick == 6

PauseEnv == [drops |-> TRUE, walls |-> FALSE, bullets |-> 1, hostiles |-> 1,
             timing |-> FALSE, touch |-> FALSE, ticks |-> {PauseTick}]

\* GameView.on_key_press(controls.use_item) (views.py 1129-1176): the
\* handler returns at line 1167 while the game is paused.
GameView_use_item_key ==
    /\ game.view = "game"
    /\ exc = "none"
    /\ player' = IF game.paused THEN player ELSE use_item(player)
    /\ UNCHANGED <<level, ret, exc, calls, successes, game, obs, hostiles, tasks>>

InitPause ==
    /\ level = Level_init([mobs_probabilities |-> {"zombie"},
                           waves |-> <<<<IntSel(1), MaxWaveDuration>>>>,
                           special_waves |-> SpecialWaves])
    /\ ret = <<>>
    /\ exc = "none"
    /\ calls = 0
    /\ successes = 0
    /\ \E hard \in BOOLEAN : game = GameView_setup(hard)
    /\ obs = NoObs
    /\ hostiles = <<>>
    /\ tasks = NoTasks
    /\ player = Player_init

NextPause ==
    \/ GameView_on_update(PauseEnv)
    \/ GameView_escape
    \/ GameView_use_item_key
    \/ show_player
    \/ allow_player_movement

SpecPause == InitPause /\ [][NextPause]_vars

\* The sprites of a list, whatever their ages.
Sprites(items) == [i \in 1..Len(items) |-> items[i].type]
ItemIds(items) == [i \in 1..Len(items) |-> items[i].id]

\* C39: no step taken while the game is paused changes the wave cursor,
\* the hostiles, the projectiles, the pickups on the ground, res_coins,
\* stored_item or active_items.
C39_PausedChangesNothing ==
    [][(game.view = "game" /\ game.paused) =>
          /\ level'.current_wave = level.current_wave
          /\ DOMAIN game'.hostiles = DOMAIN game.hostiles
          /\ \A h \in DOMAIN game.hostiles :
                game'.hostiles[h].hp = game.hostiles[h].hp
          /\ game'.friendly_projectiles = game.friendly_projectiles
          /\ game'.hostile_projectiles = game.hostile_projectiles
          /\ Sprites(game'.items) = Sprites(game.items)
          /\ game'.res_coins = game.res_coins
          /\ player'.stored_item = player.stored_item
          /\ ItemIds(player'.active_items) = ItemIds(player.active_items)
      ]_vars

\* A tick has passed in a paused game with a projectile in the scene and
\* an item that is still active past its duration.
C39_Witness ==
    /\ game.paused
    /\ obs.tick = "paused"
    /\ game.started
    /\ game.friendly_projectiles # <<>>
    /\ \E i \in 1..Len(player.active_items) :
          player.active_items[i].age > DURATION(player.active_items[i].type)


(***************************************************************************)
(* SpecBounds: a room of one wave of two hostiles that may drop coins,     *)
(* in long ticks.                                                          *)
(***************************************************************************)
BoundsTick == 8

BoundsEnv == [drops |-> TRUE, walls |-> FALSE, bullets |-> 1, hostiles |-> 2,
              timing |-> FALSE, touch |-> FALSE, ticks |-> {BoundsTick}]

InitBounds ==
    /\ level = Level_init([mobs_probabilities |-> {"zombie"},
                           waves |-> <<<<IntSel(2), MaxWaveDuration>>>>,
                           special_waves |-> SpecialWaves])
    /\ ret = <<>>
    /\ exc = "none"
    /\ calls = 0
    /\ successes = 0
    /\ \E hard \in BOOLEAN : game = GameView_setup(hard)
    /\ obs = NoObs
    /\ NoPath

NextBounds ==
    \/ GameView_on_update(BoundsEnv)
    \/ show_player
    \/ allow_player_movement

SpecBounds == InitBounds /\ [][NextBounds]_vars

\* C40: 0 <= level.current_wave <= len(level.waves) and
\* player.res_coins >= 0 in every reachable state.
C40_CursorAndCoinsInRange ==
    /\ 0 <= level.current_wave
    /\ level.current_wave <= Len(level.waves)
    /\ game.res_coins >= 0

\* The player has died with its last coin, one wave into the level, and
\* picked up a coin in the same tick: the cursor is clamped at 0 and the
\* coins went through 0.
C40_Witness ==
    /\ obs.tick = "ran"
    /\ obs.kill = "resurrected"
    /\ obs.pre.res_coins = 1
    /\ obs.post.res_coins = 0
    /\ obs.pre.current_wave = 1
    /\ level.current_wave = 0
    /\ game.res_coins = 1

=============================================================================
